---- MODULE Spec2Model ----
(***************************************************************************)
(* A model of the incremental module-description generator of             *)
(* code-module/scripts/analyze_tree.py: the directory walker, the leaf    *)
(* classifier, the summary propagator, the report store (modules.md) and  *)
(* the orchestrator with its interactive resume strategies; of the        *)
(* cached information fetcher of opencodedoc/scripts/fetch_info.py; and   *)
(* of get_utc_offset of myenv/scripts/get_time.py.                        *)
(*                                                                         *)
(* Text is modelled by TLA+ strings, a document by the sequence of its    *)
(* lines (content.split('\n')), a path by the sequence of its parts.      *)
(* The labels of the program are Chinese; a TLA+ string holds ASCII only, *)
(* so every run of CJK characters is written as an ASCII stand-in of the  *)
(* same number of characters without white space (one stand-in per run,   *)
(* injective), which keeps len(), slicing, split() and equality as they   *)
(* are in the program.  '[TBD]' stands for the placeholder, '&' for the   *)
(* conjunction joining two themes; the tree connectors are '|-- ', '+-- ' *)
(* and '|   '.                                                             *)
(***************************************************************************)
EXTENDS Integers, Sequences, FiniteSets, TLC

VARIABLES
    root,               \* absolute path of the project root (its parts after '/')
    cwd,                \* the process's current working directory
    rawfs,              \* the directories that exist under root: relative paths, <<>> is root
    faults,             \* the directories that cannot be listed, and those whose files cannot be read
    doc,                \* modules.md: NoDoc, or the sequence of its lines
    pc,                 \* position of the running invocation ("idle" between invocations)
    verb,               \* the invocation in progress or last ended
    outcome,            \* how the last invocation ended
    batch_size,         \* generate_modules_incremental's batch_size
    directories,        \* the run's walk snapshot (sorted)
    depth,              \* the depth level being propagated
    idx,                \* index of the next directory of the current loop
    targets,            \* leaf_dirs, missing_or_invalid or target_dirs of the run
    dir_summaries,      \* the run's in-memory labels: path -> label
    updates,            \* the pending-update buffer: a sequence of <<path, label>>
    existing_descriptions, \* the label map parsed at the start of a strategy-2/3 run
    doc0,               \* history: the document a validate or strategy-2/3 run found
    walk0,              \* history: the walker's output when the document was last created
    classified,         \* history: directories labelled by the leaf classifier in this run
    propagated,         \* history: directories labelled by the propagator in this run
    lastcall,           \* history: the arguments of the last propagate_summary call
    call,               \* pure-function specifications: the arguments drawn by Init
    result,             \* pure-function specifications: what the function returned
    cache_file,         \* fetch_info.py: the content of .fetch_cache.json
    clock,              \* fetch_info.py: datetime.now(), in seconds
    requests,           \* fetch_info.py: TRUE iff the requests library can be imported
    saved_at,           \* history: query type -> when its answer was last saved in the cache
    invocation          \* history: the last invocation of fetch_info.py

\* The state of the information fetcher
fetch_vars == << cache_file, clock, requests, saved_at, invocation >>

vars == << fetch_vars, root, cwd, rawfs, faults, doc, pc, verb, outcome, batch_size, directories, depth,
           idx, targets, dir_summaries, updates, existing_descriptions, doc0, walk0,
           classified, propagated, lastcall, call, result >>

(***************************************************************************)
(* Strings                                                                 *)
(***************************************************************************)

\* The printable ASCII characters in code-point order (without the double
\* quote, the backslash and the backquote): the order Python compares strings by.
CharOrder == " !#$%&'()*+,-./0123456789:;<=>?@ABCDEFGHIJKLMNOPQRSTUVWXYZ[]^_abcdefghijklmnopqrstuvwxyz{|}~"

UpperChars == "ABCDEFGHIJKLMNOPQRSTUVWXYZ"
LowerChars == "abcdefghijklmnopqrstuvwxyz"

CharAt(s, i) == SubSeq(s, i, i)

Ord(c) == CHOOSE i \in 1..Len(CharOrder) : CharAt(CharOrder, i) = c

\* s < t for two strings, as Python's str.__lt__
RECURSIVE StrLess(_, _)
StrLess(s, t) ==
    IF Len(t) = 0 THEN FALSE
    ELSE IF Len(s) = 0 THEN TRUE
    ELSE IF CharAt(s, 1) = CharAt(t, 1)
         THEN StrLess(SubSeq(s, 2, Len(s)), SubSeq(t, 2, Len(t)))
         ELSE Ord(CharAt(s, 1)) < Ord(CharAt(t, 1))

\* s.startswith(p), s.endswith(p), p in s
StartsWith(s, p) == Len(p) <= Len(s) /\ SubSeq(s, 1, Len(p)) = p
EndsWith(s, p) == Len(p) <= Len(s) /\ SubSeq(s, Len(s) - Len(p) + 1, Len(s)) = p
Contains(s, p) == \E i \in 1..(Len(s) - Len(p) + 1) : SubSeq(s, i, i + Len(p) - 1) = p

\* s.find(p) + 1: the position of the first occurrence of p in s, 0 when there is none
Find(s, p) ==
    IF Contains(s, p)
    THEN CHOOSE i \in 1..(Len(s) - Len(p) + 1) :
            /\ SubSeq(s, i, i + Len(p) - 1) = p
            /\ \A j \in 1..(i - 1) : SubSeq(s, j, j + Len(p) - 1) # p
    ELSE 0

LowerChar(c) ==
    IF \E i \in 1..Len(UpperChars) : CharAt(UpperChars, i) = c
    THEN CharAt(LowerChars, CHOOSE i \in 1..Len(UpperChars) : CharAt(UpperChars, i) = c)
    ELSE c

\* s.lower()
RECURSIVE Lower(_)
Lower(s) == IF Len(s) = 0 THEN "" ELSE LowerChar(CharAt(s, 1)) \o Lower(SubSeq(s, 2, Len(s)))

\* s.strip(): the model's only white space is the blank
RECURSIVE Strip(_)
Strip(s) ==
    IF Len(s) = 0 THEN s
    ELSE IF CharAt(s, 1) = " " THEN Strip(SubSeq(s, 2, Len(s)))
    ELSE IF CharAt(s, Len(s)) = " " THEN Strip(SubSeq(s, 1, Len(s) - 1))
    ELSE s

\* s.split(): the words of s, split at runs of blanks
RECURSIVE Split(_)
Split(s) ==
    LET t == Strip(s) IN
    IF Len(t) = 0 THEN << >>
    ELSE LET sp == Find(t, " ") IN
         IF sp = 0 THEN << t >>
         ELSE << SubSeq(t, 1, sp - 1) >> \o Split(SubSeq(t, sp + 1, Len(t)))

\* s[:n]
Truncate(s, n) == IF Len(s) > n THEN SubSeq(s, 1, n) ELSE s

\* sep.join(words)
RECURSIVE Join(_, _)
Join(words, sep) ==
    IF Len(words) = 0 THEN ""
    ELSE IF Len(words) = 1 THEN words[1]
    ELSE words[1] \o sep \o Join(Tail(words), sep)

Range(f) == { f[i] : i \in DOMAIN f }

(***************************************************************************)
(* Paths                                                                   *)
(***************************************************************************)

\* Path.name, Path.parent for a path given by its parts
PathName(p) == IF Len(p) = 0 THEN "" ELSE p[Len(p)]
Parent(p) == IF Len(p) = 0 THEN p ELSE SubSeq(p, 1, Len(p) - 1)

IsPrefix(p, q) == Len(p) <= Len(q) /\ SubSeq(q, 1, Len(p)) = p

\* p < q for two paths: their parts compared as lists of strings
RECURSIVE PathLess(_, _)
PathLess(p, q) ==
    IF Len(q) = 0 THEN FALSE
    ELSE IF Len(p) = 0 THEN TRUE
    ELSE IF p[1] = q[1] THEN PathLess(Tail(p), Tail(q))
    ELSE StrLess(p[1], q[1])

\* sorted(S) for a set of paths
RECURSIVE Sorted(_)
Sorted(S) ==
    IF S = {} THEN << >>
    ELSE LET m == CHOOSE x \in S : \A y \in S \ {x} : PathLess(x, y)
         IN << m >> \o Sorted(S \ {m})

(***************************************************************************)
(* Directory walker                                                        *)
(***************************************************************************)

IGNORED_DIRS ==
    { "node_modules", ".git", "__pycache__", ".venv", "venv", "env", "dist", "build",
      ".next", ".nuxt", "target", "bin", "obj", ".pytest_cache", "coverage", ".mypy_cache" }

CODE_EXTENSIONS ==
    { ".py", ".js", ".ts", ".tsx", ".jsx", ".java", ".go", ".rs", ".cpp", ".c", ".cs",
      ".rb", ".php", ".swift", ".kt", ".scala", ".sh", ".bash", ".zsh" }

\* The absolute path of a directory given relative to the root r
Abs(r, p) == r \o p

\* A mutation of is_ignored_dir: only the directory's own name is looked at
is_ignored_dir_name_only(path) == PathName(path) \in IGNORED_DIRS

\* is_ignored_dir: any part of the path is in IGNORED_DIRS
is_ignored_dir(path) == \E i \in 1..Len(path) : path[i] \in IGNORED_DIRS

\* The subdirectories of p among the directories fs
Children(fs, p) == { q \in fs : Len(q) = Len(p) + 1 /\ Parent(q) = p }

\* os.walk(root) top-down from p, as find_all_directories consumes it: an ignored
\* dirpath is skipped (and its dirnames are left as they are), otherwise the
\* ignored names are pruned from dirnames and the dirpath is kept.
RECURSIVE Walk(_, _, _)
Walk(r, fs, p) ==
    IF is_ignored_dir(Abs(r, p))
    THEN UNION { Walk(r, fs, k) : k \in Children(fs, p) }
    ELSE {p} \cup UNION { Walk(r, fs, k) :
                            k \in { c \in Children(fs, p) : PathName(c) \notin IGNORED_DIRS } }

\* find_all_directories(root): sorted; nothing when root does not exist
find_all_directories(r, fs) == IF << >> \in fs THEN Sorted(Walk(r, fs, << >>)) ELSE << >>

\* A mutation of is_leaf_directory: a directory counts as its own child
is_leaf_directory_self(r, dir_path, all_dirs) ==
    \A i \in DOMAIN all_dirs : IsPrefix(dir_path, all_dirs[i]) => Len(all_dirs[i]) > Len(dir_path) + 1

\* is_leaf_directory(dir_path, all_dirs)
is_leaf_directory(r, dir_path, all_dirs) ==
    \A i \in DOMAIN all_dirs :
        ~ (Parent(Abs(r, all_dirs[i])) = Abs(r, dir_path) /\ all_dirs[i] # dir_path)

\* get_leaf_directories(directories)
get_leaf_directories(r, dirs) == SelectSeq(dirs, LAMBDA d : is_leaf_directory(r, d, dirs))

\* The depth get_directories_by_depth files a directory under
DepthOf(p) == Len(p)

\* get_directories_by_depth(directories, root)[d]; << >> when d is no key
depth_map(dirs, d) == SelectSeq(dirs, LAMBDA p : DepthOf(p) = d)

\* max(depth_map.keys()) if depth_map else 0
max_depth(dirs) ==
    IF Len(dirs) = 0 THEN 0
    ELSE CHOOSE m \in { DepthOf(dirs[i]) : i \in DOMAIN dirs } :
            \A i \in DOMAIN dirs : DepthOf(dirs[i]) <= m

(***************************************************************************)
(* Leaf classifier                                                         *)
(***************************************************************************)

NEED_CODE_ANALYSIS == "NEED_CODE_ANALYSIS"

\* code_files[:5]
MaxFilesRead == 5
\* the directory name is cut to 10 characters in a classifier fallback label
MaxNameInLabel == 10
\* the directory name is cut to 15 characters in a propagator fallback label
MaxNameInGroupLabel == 15
\* a summary is cut to 50 characters
MaxSummaryLen == 50
\* a theme needs 4 characters
MinThemeLen == 4

\* The first of the indices S of the rules of a table that accept, 0 when none does
FirstMatch(S) ==
    IF S = {} THEN 0 ELSE CHOOSE i \in S : \A j \in S : i <= j

TopLevelRules ==
    << [kind |-> "in", keys |-> {"api", "apis"}, label |-> "APIIfDef"],
       [kind |-> "in", keys |-> {"service", "services"}, label |-> "BizSL"],
       [kind |-> "in", keys |-> {"platform", "core"}, label |-> "PlatCo"],
       [kind |-> "sub", keys |-> {"common", "shared", "util"}, label |-> "CommonT"],
       [kind |-> "in", keys |-> {"config", "conf", "settings"}, label |-> "SysCfg"],
       [kind |-> "in", keys |-> {"test", "tests"}, label |-> "Test"],
       [kind |-> "in", keys |-> {"doc", "docs", "docs"}, label |-> "Docs"],
       [kind |-> "in", keys |-> {"run", "dist", "build", "bin"}, label |-> "RunTm"],
       [kind |-> "in", keys |-> {"tmp", "temp", "cache"}, label |-> "TmpDir"],
       [kind |-> "in", keys |-> {"vendor", "third_party"}, label |-> "3rdPt"],
       [kind |-> "in", keys |-> {"scripts", "script"}, label |-> "Scrpt"],
       [kind |-> "in", keys |-> {"modules", "mod"}, label |-> "ModSt"],
       [kind |-> "in", keys |-> {"assets"}, label |-> "Assets"],
       [kind |-> "in", keys |-> {"references", "ref", "refs"}, label |-> "RefDir"],
       [kind |-> "in", keys |-> {"lib", "libs"}, label |-> "LibDr"],
       [kind |-> "in", keys |-> {"include", "includes"}, label |-> "Hdrs_"],
       [kind |-> "in", keys |-> {"src", "source"}, label |-> "SrcDr"] >>

SegmentRules ==
    << [keys |-> {"hr"}, label |-> "HumanRes"],
       [keys |-> {"enterprise"}, label |-> "Enterp"],
       [keys |-> {"pay"}, label |-> "PayMod"],
       [keys |-> {"mail"}, label |-> "MailMd"],
       [keys |-> {"sms"}, label |-> "SmsMod"],
       [keys |-> {"video"}, label |-> "VideoM"],
       [keys |-> {"file"}, label |-> "FileMd"],
       [keys |-> {"user"}, label |-> "UserMd"],
       [keys |-> {"auth"}, label |-> "AuthMd"],
       [keys |-> {"ai"}, label |-> "AISvMd"],
       [keys |-> {"search"}, label |-> "Search"],
       [keys |-> {"recruitment"}, label |-> "Recrui"],
       [keys |-> {"resume"}, label |-> "Resume"],
       [keys |-> {"course"}, label |-> "Course"],
       [keys |-> {"tex"}, label |-> "ExamMd"],
       [keys |-> {"workorder"}, label |-> "WorkOr"],
       [keys |-> {"notice"}, label |-> "Notice"],
       [keys |-> {"invoice"}, label |-> "Invoic"],
       [keys |-> {"contract"}, label |-> "Contra"],
       [keys |-> {"order"}, label |-> "OrderM"],
       [keys |-> {"product"}, label |-> "Produc"],
       [keys |-> {"resource"}, label |-> "Resour"],
       [keys |-> {"cluster"}, label |-> "Cluste"],
       [keys |-> {"container"}, label |-> "Contai"],
       [keys |-> {"gpu"}, label |-> "GPUResM"],
       [keys |-> {"hardware"}, label |-> "Hardwa"],
       [keys |-> {"network"}, label |-> "Networ"],
       [keys |-> {"log", "logger"}, label |-> "LogMgm"],
       [keys |-> {"cache", "redis"}, label |-> "CacheS"],
       [keys |-> {"db", "database"}, label |-> "DbMod"],
       [keys |-> {"mq", "queue"}, label |-> "MsgQue"],
       [keys |-> {"event"}, label |-> "EventM"],
       [keys |-> {"driver"}, label |-> "DrvAd"],
       [keys |-> {"adapter"}, label |-> "AdpL"],
       [keys |-> {"middleware"}, label |-> "MidL"],
       [keys |-> {"controller", "handler"}, label |-> "CtlL"],
       [keys |-> {"model", "entity"}, label |-> "ModlL"],
       [keys |-> {"common", "util"}, label |-> "UtilMd"],
       [keys |-> {"security"}, label |-> "Securi"],
       [keys |-> {"test"}, label |-> "TstM"] >>

NameKeywordRules ==
    << [keys |-> {"api"}, label |-> "APIIf"],
       [keys |-> {"service"}, label |-> "BizS"],
       [keys |-> {"controller", "handler"}, label |-> "Ctl"],
       [keys |-> {"model"}, label |-> "Modl"],
       [keys |-> {"adapter"}, label |-> "Adp"],
       [keys |-> {"driver"}, label |-> "Drv"],
       [keys |-> {"middleware"}, label |-> "Mid"],
       [keys |-> {"auth"}, label |-> "Auth"],
       [keys |-> {"config"}, label |-> "CfgM"],
       [keys |-> {"util", "common"}, label |-> "Util"] >>

NamePatternRules ==
    << [prefix |-> "api_", suffix |-> "_api", label |-> "APIIf"],
       [prefix |-> "service_", suffix |-> "_service", label |-> "BizS"],
       [prefix |-> "controller", suffix |-> "_controller", label |-> "Ctl"],
       [prefix |-> "model", suffix |-> "_model", label |-> "Modl"],
       [prefix |-> "handler", suffix |-> "_handler", label |-> "ReqHd"],
       [prefix |-> "adapter", suffix |-> "_adapter", label |-> "Adp"],
       [prefix |-> "driver", suffix |-> "_driver", label |-> "Drv"] >>

CommonNameRules ==
    << [keys |-> {"conf", "config", "configs"}, label |-> "CfgDir"],
       [keys |-> {"certs", "certificates"}, label |-> "Certs_"],
       [keys |-> {"example", "examples", "demo"}, label |-> "Exmp"],
       [keys |-> {"test", "tests", "spec"}, label |-> "Test"],
       [keys |-> {"doc", "docs", "readme"}, label |-> "Docs"],
       [keys |-> {"log", "logs"}, label |-> "LogD"] >>

keywords_map ==
    << [key |-> "auth", label |-> "AuthMd"],
       [key |-> "config", label |-> "CfgM"],
       [key |-> "util", label |-> "Util"],
       [key |-> "api", label |-> "APIIf"],
       [key |-> "model", label |-> "Modl"],
       [key |-> "service", label |-> "BizS"],
       [key |-> "test", label |-> "Test"],
       [key |-> "controller", label |-> "Ctl"],
       [key |-> "middleware", label |-> "Mid"],
       [key |-> "client", label |-> "Cli"],
       [key |-> "server", label |-> "Srv"],
       [key |-> "cache", label |-> "Ca"],
       [key |-> "log", label |-> "Lg"],
       [key |-> "security", label |-> "SecM"],
       [key |-> "event", label |-> "Evnt"],
       [key |-> "task", label |-> "Task"],
       [key |-> "socket", label |-> "Comm"],
       [key |-> "storage", label |-> "Stor"],
       [key |-> "driver", label |-> "Drv"],
       [key |-> "adapter", label |-> "Adp"] >>

NameKeywordGuard ==
    { "api", "service", "controller", "model", "handler", "adapter", "driver", "middleware",
      "auth", "config", "util", "common" }


\* analyze_by_path(dir_path, root): both absolute; the caller passes the
\* current working directory as root
analyze_by_path(dir_path, r) ==
    LET path_parts == IF IsPrefix(r, dir_path)
                      THEN SubSeq(dir_path, Len(r) + 1, Len(dir_path))
                      ELSE << PathName(dir_path) >>
        parts == Range(path_parts)
        dir_name == Lower(PathName(dir_path))
        top == IF Len(path_parts) = 1
               THEN FirstMatch({ ix \in DOMAIN TopLevelRules :
                       LET rule == TopLevelRules[ix] IN IF rule.kind = "in" THEN dir_name \in rule.keys
                           ELSE \E k \in rule.keys : Contains(dir_name, k) })
               ELSE 0
        seg == FirstMatch({ ix \in DOMAIN SegmentRules :
                LET rule == SegmentRules[ix] IN rule.keys \cap parts # {} })
        kw == IF \E k \in NameKeywordGuard : Contains(dir_name, k)
              THEN FirstMatch({ ix \in DOMAIN NameKeywordRules :
                      LET rule == NameKeywordRules[ix] IN \E k \in rule.keys : Contains(dir_name, k) })
              ELSE 0
        pat == FirstMatch({ ix \in DOMAIN NamePatternRules :
                LET rule == NamePatternRules[ix] IN StartsWith(dir_name, rule.prefix)
                    \/ EndsWith(dir_name, rule.suffix) })
        com == FirstMatch({ ix \in DOMAIN CommonNameRules :
                LET rule == CommonNameRules[ix] IN dir_name \in rule.keys })
    IN  IF top # 0 THEN TopLevelRules[top].label
        ELSE IF {"api", "apis", "rpc"} \cap parts # {}
             THEN IF "plat" \in parts THEN "PlAPIIf"
                  ELSE IF "agent" \in parts THEN "Agent APIIf"
                  ELSE "RESTful APIIf"
        ELSE IF "service" \in parts
             THEN IF "manage" \in parts THEN "MgmS"
                  ELSE IF "dashboard" \in parts THEN "Dashb"
                  ELSE IF "agent" \in parts THEN "AgentSv"
                  ELSE IF "public" \in parts THEN "PubS"
                  ELSE "BizS"
        ELSE IF seg # 0 THEN SegmentRules[seg].label
        ELSE IF kw # 0 THEN NameKeywordRules[kw].label
        ELSE IF pat # 0 THEN NamePatternRules[pat].label
        ELSE IF com # 0 THEN CommonNameRules[com].label
        ELSE NEED_CODE_ANALYSIS

\* Path.suffix of a file name
Suffix(name) ==
    LET dots == { i \in 2..Len(name) : CharAt(name, i) = "." } IN
    IF dots = {} \/ CharAt(name, Len(name)) = "." THEN ""
    ELSE SubSeq(name, CHOOSE i \in dots : \A j \in dots : j <= i, Len(name))

\* sorted(files) by name, for a set of file records
RECURSIVE SortedFiles(_)
SortedFiles(S) ==
    IF S = {} THEN << >>
    ELSE LET m == CHOOSE x \in S : \A y \in S \ {x} : StrLess(x.name, y.name)
         IN << m >> \o SortedFiles(S \ {m})

\* get_code_files(dir_path): files is the set of the directory's regular files,
\* each [name, content, readable]
get_code_files(files) == SortedFiles({ f \in files : Suffix(f.name) \in CODE_EXTENSIONS })

\* all_content of analyze_directory_code: the first files' contents, each
\* followed by a line feed; a file that cannot be read is skipped
RECURSIVE AllContent(_)
AllContent(fs) ==
    IF Len(fs) = 0 THEN ""
    ELSE (IF fs[1].readable THEN fs[1].content \o "\n" ELSE "") \o AllContent(Tail(fs))

\* analyze_directory_code(dir_path): c is Path.cwd(), files the directory's files
analyze_directory_code(dir_path, c, files) ==
    LET desc == analyze_by_path(dir_path, c)
        code_files == get_code_files(files)
        all_content == AllContent(SubSeq(code_files, 1,
                           IF Len(code_files) < MaxFilesRead THEN Len(code_files) ELSE MaxFilesRead))
        content_lower == Lower(all_content)
        dir_name == Lower(PathName(dir_path))
        byname == FirstMatch({ ix \in DOMAIN keywords_map :
                LET e == keywords_map[ix] IN Contains(dir_name, e.key) })
        hits == { i \in DOMAIN code_files :
                    \E j \in DOMAIN keywords_map :
                        Contains(Lower(code_files[i].name), keywords_map[j].key) }
        firstfile == CHOOSE i \in hits : \A j \in hits : i <= j
        byfile == FirstMatch({ ix \in DOMAIN keywords_map :
                LET e == keywords_map[ix] IN Contains(Lower(code_files[firstfile].name), e.key) })
        bycontent == FirstMatch({ ix \in DOMAIN keywords_map :
                LET e == keywords_map[ix] IN Contains(content_lower, e.key) })
    IN  IF desc # NEED_CODE_ANALYSIS THEN desc
        ELSE IF Len(code_files) = 0 THEN "Resources"
        ELSE IF all_content = "" THEN "NoValid"
        ELSE IF byname # 0 THEN keywords_map[byname].label
        ELSE IF hits # {} THEN keywords_map[byfile].label
        ELSE IF bycontent # 0 THEN keywords_map[bycontent].label
        ELSE Truncate(PathName(dir_path), MaxNameInLabel) \o "RelM"

\* The files analyze_directory_code(dir_path) calls read_text on, in order: none when
\* the path gives the label or no code file is found, else code_files[:5]
files_read(dir_path, c, files) ==
    LET code_files == get_code_files(files) IN
    IF analyze_by_path(dir_path, c) # NEED_CODE_ANALYSIS THEN << >>
    ELSE [ i \in 1..(IF Len(code_files) < MaxFilesRead THEN Len(code_files) ELSE MaxFilesRead)
             |-> code_files[i].name ]

\* analyze_directory_code(dir_path) raises: the path gives no label and
\* dir_path.iterdir() of get_code_files fails (the directory cannot be listed);
\* a file that cannot be read is skipped by the try/except around read_text
analyze_directory_code_raises(dir_path, c, listable) ==
    analyze_by_path(dir_path, c) = NEED_CODE_ANALYSIS /\ ~listable

(***************************************************************************)
(* Summary propagator                                                      *)
(***************************************************************************)

OverrideTable ==
    << [keys |-> {"src", "lib", "core", "source"}, label |-> "CoreSrcLogi"],
       [keys |-> {"test", "tests", "__tests__", "spec"}, label |-> "UnitIntTest"],
       [keys |-> {"api", "apis", "routes"}, label |-> "RESTful API IfRout"],
       [keys |-> {"components", "ui", "views", "pages"}, label |-> "FrontView"],
       [keys |-> {"hooks", "composables"}, label |-> "React Hooks &Compo"],
       [keys |-> {"store", "state", "redux", "vuex"}, label |-> "GlobalState"],
       [keys |-> {"styles", "css", "scss", "less"}, label |-> "StyleTheme"],
       [keys |-> {"assets", "static", "public"}, label |-> "StaticPubli"],
       [keys |-> {"vendor", "node_modules", "third_party"}, label |-> "ThirdParty"],
       [keys |-> {"config", "settings", "env"}, label |-> "SysCfgEnvVr"],
       [keys |-> {"utils", "helpers", "commons"}, label |-> "UtilHelpers"],
       [keys |-> {"services", "business"}, label |-> "BizLogicSv"],
       [keys |-> {"models", "entities", "schemas"}, label |-> "ModelEntit"],
       [keys |-> {"controllers", "handlers"}, label |-> "CtlReqHdl"],
       [keys |-> {"middleware", "interceptors"}, label |-> "MidInterce"],
       [keys |-> {"client", "http", "request"}, label |-> "HTTP CliReqWr"],
       [keys |-> {"server", "app", "main"}, label |-> "AppStartup"],
       [keys |-> {"database", "db", "repositories"}, label |-> "DbAccessPer"],
       [keys |-> {"cache", "redis", "session"}, label |-> "CacheSess"],
       [keys |-> {"logs", "logging", "monitor"}, label |-> "LogMonitorT"],
       [keys |-> {"exceptions", "errors", "handlers"}, label |-> "ExceptionHd"],
       [keys |-> {"events", "listeners", "observers"}, label |-> "EventPubSub"],
       [keys |-> {"tasks", "jobs", "queues", "workers"}, label |-> "AsyncTaskSc"],
       [keys |-> {"socket", "websocket", "ws", "io"}, label |-> "WebSocket &RealTm"],
       [keys |-> {"storage", "files", "uploads"}, label |-> "FileStorage"],
       [keys |-> {"security", "auth", "permission"}, label |-> "CryptoSecur"],
       [keys |-> {"locale", "i18n", "translations"}, label |-> "I18nLocaleM"],
       [keys |-> {"platform", "core", "kernel"}, label |-> "PlatCoreInf"],
       [keys |-> {"cluster", "distributed"}, label |-> "ClusterDis"],
       [keys |-> {"communication", "comm", "interfaces"}, label |-> "PlatCommIfD"],
       [keys |-> {"plugins", "extensions", "addons"}, label |-> "PluginExte"],
       [keys |-> {"documentation", "docs", "readme"}, label |-> "ProjDocum"] >>

\* The theme propagate_summary takes from a child summary: its first two words
\* joined; "" when the summary yields none
Theme(summary) ==
    LET words == Split(summary)
        theme == IF Len(words) > 1 THEN words[1] \o words[2] ELSE ""
    IN  IF Len(theme) >= MinThemeLen THEN theme ELSE ""

\* The label propagate_summary falls back on, from the directory's own name
GroupLabel(dir_name) ==
    LET dir_display == Truncate(dir_name, MaxNameInGroupLabel) IN
    IF Contains(dir_name, "config") THEN dir_display \o "CfgMgm"
    ELSE IF Contains(dir_name, "test") THEN dir_display \o "TstS"
    ELSE IF Contains(dir_name, "api") THEN dir_display \o "IfMd"
    ELSE dir_display \o "FeatG"

\* A mutation of propagate_summary: the children are looked at before the
\* directory's name, so a homogeneous directory inherits even under an override name
propagate_summary_children_first(dir_path, child_summaries, r, c, files) ==
    LET unique_summaries == Range(child_summaries)
        ovr == FirstMatch({ ix \in DOMAIN OverrideTable :
                LET e == OverrideTable[ix] IN PathName(dir_path) \in e.keys })
    IN  IF Cardinality(unique_summaries) = 1
        THEN { Truncate(child_summaries[1], MaxSummaryLen) }
        ELSE IF ovr # 0 THEN { OverrideTable[ovr].label }
        ELSE { GroupLabel(PathName(dir_path)) }

\* A mutation of propagate_summary: the one summary of homogeneous children is
\* returned at its full length
propagate_summary_untruncated(dir_path, child_summaries, r, c, files) ==
    LET unique_summaries == Range(child_summaries)
        ovr == FirstMatch({ ix \in DOMAIN OverrideTable :
                LET e == OverrideTable[ix] IN PathName(dir_path) \in e.keys })
    IN  IF Len(child_summaries) = 0 THEN { analyze_directory_code(dir_path, c, files) }
        ELSE IF ovr # 0 THEN { OverrideTable[ovr].label }
        ELSE IF Cardinality(unique_summaries) = 1
        THEN { child_summaries[1] }
        ELSE { GroupLabel(PathName(dir_path)) }

\* propagate_summary(dir_path, child_summaries, root): the set of the labels it
\* can return.  list(set(child_summaries)) lists the distinct summaries in an
\* order that depends on the process's string hashing, so the two themes that
\* are merged are any two distinct theme-bearing summaries in either order.
\* c is Path.cwd() and files the directory's files, which the call reads when
\* child_summaries is empty.
propagate_summary(dir_path, child_summaries, r, c, files) ==
    LET dir_name == PathName(dir_path)
        ovr == FirstMatch({ ix \in DOMAIN OverrideTable :
                LET e == OverrideTable[ix] IN dir_name \in e.keys })
        unique_summaries == Range(child_summaries)
        the_one == CHOOSE u \in unique_summaries : TRUE
        themed == { u \in unique_summaries : Theme(u) # "" }
        merges == { Theme(p[1]) \o "&" \o Theme(p[2]) :
                      p \in { q \in themed \X themed : q[1] # q[2] } }
    IN  IF Len(child_summaries) = 0 THEN { analyze_directory_code(dir_path, c, files) }
        ELSE IF ovr # 0 THEN { OverrideTable[ovr].label }
        ELSE IF dir_path = r \/ dir_name = PathName(r)
             THEN IF Cardinality(unique_summaries) = 1
                  THEN IF the_one = "Resources"
                       THEN { Truncate(dir_name, MaxNameInLabel) \o "PrjM" }
                       ELSE { the_one }
                  ELSE { dir_name \o "RelM" }
        ELSE IF Cardinality(unique_summaries) = 1
             THEN { Truncate(the_one, MaxSummaryLen) }
        ELSE { m \in merges : Len(m) <= MaxSummaryLen }
             \cup (IF Cardinality(themed) < 2 \/ \E m \in merges : Len(m) > MaxSummaryLen
                   THEN { GroupLabel(dir_name) } ELSE {})


(***************************************************************************)
(* Report store: modules.md                                                *)
(***************************************************************************)

\* No modules.md: a document always has a line, so the empty sequence is free
NoDoc == << >>

PLACEHOLDER == "[TBD]"
SEPARATOR == " - "
MARKER_PREFIX == "<!-- Last Update:"
DESCRIPTIONS_HEADING == "## Module Descriptions"

\* What datetime.now() can format to when a marker is written
Timestamps == { "T1", "T2" }

\* write_text('\n'.join(lines)) followed by read_text().split('\n'): the lines
\* the document then has (the empty text is one empty line)
Written(lines) == IF Len(lines) = 0 THEN << "" >> ELSE lines

\* get_full_path(dir_path, root)
get_full_path(p, r) ==
    IF Len(p) = 0 THEN PathName(r) \o "/" ELSE PathName(r) \o "/" \o Join(p, "/") \o "/"

IsMarkerLine(line) == StartsWith(Strip(line), MARKER_PREFIX)

ProgressHeader(ts, processing_dir) ==
    "<!-- Last Update: " \o ts \o " | Processing: " \o processing_dir \o " -->"

\* update_progress_header(root, processing_dir) on an existing document
update_progress_header(lines, processing_dir, ts) ==
    LET new_header == ProgressHeader(ts, processing_dir)
        updated_lines == [ i \in DOMAIN lines |->
                             IF IsMarkerLine(lines[i]) THEN new_header ELSE lines[i] ]
    IN  Written(IF \E i \in DOMAIN updated_lines : Contains(updated_lines[i], MARKER_PREFIX)
                THEN updated_lines
                ELSE updated_lines \o << "", new_header >>)

\* while updated_lines and updated_lines[-1].strip() == "": updated_lines.pop()
RECURSIVE DropTrailingBlank(_)
DropTrailingBlank(lines) ==
    IF Len(lines) > 0 /\ Strip(lines[Len(lines)]) = ""
    THEN DropTrailingBlank(SubSeq(lines, 1, Len(lines) - 1))
    ELSE lines

\* remove_progress_header(root) on an existing document
remove_progress_header(lines) ==
    Written(DropTrailingBlank(SelectSeq(lines, LAMBDA line : ~ IsMarkerLine(line))))

\* update_map of batch_update_descriptions: full path -> new description, in
\* the order the keys were first inserted, a later value replacing an earlier
RECURSIVE UpdateMap(_, _)
UpdateMap(upds, r) ==
    IF Len(upds) = 0 THEN << >>
    ELSE LET before == UpdateMap(SubSeq(upds, 1, Len(upds) - 1), r)
             last == upds[Len(upds)]
             key == get_full_path(last[1], r)
         IN  IF \E i \in DOMAIN before : before[i][1] = key
             THEN [ i \in DOMAIN before |->
                      IF before[i][1] = key THEN << key, last[2] >> ELSE before[i] ]
             ELSE Append(before, << key, last[2] >>)

\* The line batch_update_descriptions writes for a line of the document
UpdatedLine(line, update_map) ==
    LET m == FirstMatch({ ix \in DOMAIN update_map :
            LET e == update_map[ix] IN StartsWith(line, e[1] \o SEPARATOR) }) IN
    IF m = 0 THEN line ELSE update_map[m][1] \o SEPARATOR \o update_map[m][2]

\* batch_update_descriptions(root, updates) on an existing document
batch_update_descriptions(lines, upds, r) ==
    LET update_map == UpdateMap(upds, r) IN
    Written([ i \in DOMAIN lines |-> UpdatedLine(lines[i], update_map) ])

\* build_tree_string(directories, root), line by line: the subtree under p
RECURSIVE TreeLines(_, _, _, _)
TreeLines(dirs, p, prefix, is_top_level) ==
    LET items == Sorted(Children(dirs, p))
        Item(i) ==
            LET is_item_last == (i = Len(items))
                name == PathName(items[i])
                line == IF is_top_level THEN name
                        ELSE prefix \o (IF is_item_last THEN "+-- " ELSE "|-- ") \o name
                child_prefix == prefix \o (IF is_item_last THEN "    " ELSE "|   ")
            IN  << line >> \o TreeLines(dirs, items[i], child_prefix, FALSE)
        Rec[i \in 0..Len(items)] == IF i = 0 THEN << >> ELSE Rec[i - 1] \o Item(i)
    IN  Rec[Len(items)]

\* tree_str.split('\n')
build_tree_string(dirs) ==
    LET lines == TreeLines(Range(dirs), << >>, "", TRUE) IN
    IF Len(lines) = 0 THEN << "" >> ELSE lines

\* generate_initial_skeleton(root), as lines
generate_initial_skeleton(r, fs, ts) ==
    LET dirs == find_all_directories(r, fs) IN
    << "# Modules", "", "## Directory Structure", "" >>
    \o build_tree_string(dirs)
    \o << "", DESCRIPTIONS_HEADING, "" >>
    \o [ i \in DOMAIN dirs |-> get_full_path(dirs[i], r) \o SEPARATOR \o PLACEHOLDER ]
    \o << "", ProgressHeader(ts, "Initializing") >>

\* create_skeleton_file(root): the skeleton is written, over any document
create_skeleton_file(d, r, fs, ts) ==
    [doc |-> generate_initial_skeleton(r, fs, ts), signal |-> "none"]

\* batch_update_descriptions(root, updates) on modules.md as it is found:
\* raise FileNotFoundError when it does not exist
batch_update_descriptions_file(d, upds, r) ==
    IF d = NoDoc THEN [doc |-> NoDoc, signal |-> "FileNotFoundError"]
    ELSE [doc |-> batch_update_descriptions(d, upds, r), signal |-> "none"]

\* update_progress_header(root, processing_dir) on modules.md as it is found:
\* a plain return when it does not exist
update_progress_header_file(d, processing_dir, ts) ==
    IF d = NoDoc THEN [doc |-> NoDoc, signal |-> "none"]
    ELSE [doc |-> update_progress_header(d, processing_dir, ts), signal |-> "none"]

\* remove_progress_header(root) on modules.md as it is found: a plain return
\* when it does not exist
remove_progress_header_file(d) ==
    IF d = NoDoc THEN [doc |-> NoDoc, signal |-> "none"]
    ELSE [doc |-> remove_progress_header(d), signal |-> "none"]

\* A dict with key k set to v
DictSet(d, k, v) == [ x \in DOMAIN d \cup {k} |-> IF x = k THEN v ELSE d[x] ]
EmptyDict == [ x \in {} |-> "" ]
\* d.get(k, '')
DictGet(d, k) == IF k \in DOMAIN d THEN d[k] ELSE ""

\* The loop of parse_existing_descriptions from line i on
RECURSIVE ParseFrom(_, _, _, _)
ParseFrom(lines, i, in_descriptions_section, descriptions) ==
    IF i > Len(lines) THEN descriptions
    ELSE LET line == Strip(lines[i]) IN
         IF line = DESCRIPTIONS_HEADING
         THEN ParseFrom(lines, i + 1, TRUE, descriptions)
         ELSE IF in_descriptions_section /\ StartsWith(line, "##")
         THEN descriptions
         ELSE IF in_descriptions_section /\ Contains(line, SEPARATOR) /\ ~ StartsWith(line, "<!--")
         THEN LET at == Find(line, SEPARATOR) IN
              ParseFrom(lines, i + 1, in_descriptions_section,
                        DictSet(descriptions, SubSeq(line, 1, at - 1),
                                SubSeq(line, at + Len(SEPARATOR), Len(line))))
         ELSE ParseFrom(lines, i + 1, in_descriptions_section, descriptions)

\* parse_existing_descriptions(root)
parse_existing_descriptions(d) ==
    IF d = NoDoc THEN EmptyDict ELSE ParseFrom(d, 1, FALSE, EmptyDict)

\* A mutation of get_unanalyzed_directories: only the directories without an entry
get_unanalyzed_directories_absent_only(dirs, existing, r) ==
    SelectSeq(dirs, LAMBDA p : DictGet(existing, get_full_path(p, r)) = "")

\* get_unanalyzed_directories(directories, existing_descriptions, root); the
\* validation pass selects its missing_or_invalid the same way
get_unanalyzed_directories(dirs, existing, r) ==
    SelectSeq(dirs, LAMBDA p :
        LET desc == DictGet(existing, get_full_path(p, r)) IN desc = "" \/ desc = PLACEHOLDER)

\* get_new_directories(directories, existing_descriptions, root)
get_new_directories(dirs, existing, r) ==
    SelectSeq(dirs, LAMBDA p : get_full_path(p, r) \notin DOMAIN existing)


(***************************************************************************)
(* The project the orchestrator is run on                                  *)
(***************************************************************************)

\* The project roots and working directories the invocations are drawn from
Roots == { << "home", "proj" >> }
Cwds(r) == { r, << "tmp" >> }

\* Directories that always exist under the root: version-control metadata
FixedDirs == { << >>, << ".git" >>, << ".git", "objects" >> }

\* Directories that may exist under the root, or appear between two invocations
Universe ==
    { << "src" >>, << "src", "auth" >>, << "a - b" >>, << "a - b", "utils" >> }

\* The regular files of each directory
DirFiles(p) ==
    IF p = << "src", "auth" >>
    THEN { [name |-> "login.py", content |-> "def login(): pass", readable |-> TRUE] }
    ELSE IF p = << "a - b", "utils" >>
    THEN { [name |-> "format.py", content |-> "def fmt(): pass", readable |-> TRUE] }
    ELSE IF p = << "a - b" >>
    THEN { [name |-> "notes.txt", content |-> "todo", readable |-> TRUE] }
    ELSE IF p = << "src", "zz" >>
    THEN { [name |-> "job.py", content |-> "x = 1", readable |-> TRUE] }
    ELSE { [name |-> "modules.md", content |-> "", readable |-> TRUE] }

\* No directory fails to be listed, no file fails to be read
NoFaults == [listing |-> {}, reading |-> {}]

\* The regular files of p as the run finds them: read_text fails on the files
\* of a directory of faults.reading
FilesOf(p) ==
    { [name |-> f.name, content |-> f.content,
       readable |-> f.readable /\ p \notin faults.reading] : f \in DirFiles(p) }

\* iterdir succeeds on p
Listable(p) == p \notin faults.listing

\* The batch sizes generate_modules_incremental is called with (5 is the default)
BatchSizes == { 2, 5 }

\* batch_size = 5 of validate_and_fix_missing_descriptions and process_incremental_update
FixedBatchSize == 5

(***************************************************************************)
(* The information fetcher of opencodedoc/scripts/fetch_info.py            *)
(***************************************************************************)

CACHE_TTL_SECONDS == 3600

OPENCODE_REPO == "anomalyco/opencode"
OHMY_REPO == "code-yeongyu/oh-my-opencode"

\* d.get(k, default)
Get(d, k, default) == IF k \in DOMAIN d THEN d[k] ELSE default

\* .fetch_cache.json: absent, not JSON, or a JSON object; parsable tells whether
\* datetime.fromisoformat accepts its 'timestamp'
NoCacheFile == [kind |-> "missing"]
GarbageFile == [kind |-> "garbage"]
JsonFile(parsable, timestamp, data) ==
    [kind |-> "json", parsable |-> parsable, timestamp |-> timestamp, data |-> data]

\* What load_cache returns: None, or the 'data' of the file
NoPayload == [found |-> FALSE, data |-> EmptyDict]

\* load_cache with a cache that is still reused when exactly CACHE_TTL_SECONDS old
load_cache_inclusive(file, now) ==
    IF file.kind = "json" /\ file.parsable /\ now - file.timestamp <= CACHE_TTL_SECONDS
    THEN [found |-> TRUE, data |-> file.data]
    ELSE NoPayload

\* load_cache() at time now
load_cache(file, now) ==
    IF file.kind = "missing" THEN NoPayload
    ELSE IF file.kind = "garbage" THEN NoPayload
    ELSE IF ~ file.parsable THEN NoPayload
    ELSE IF now - file.timestamp < CACHE_TTL_SECONDS
         THEN [found |-> TRUE, data |-> file.data]
         ELSE NoPayload

\* save_cache(data) at time now: the file is replaced; a failure to write is
\* reported on stderr and leaves the file as it was
save_cache(file, data, now, writable) ==
    IF writable THEN JsonFile(TRUE, now, data) ELSE file

\* fetch_github_release(repo): failed tells whether requests.get or
\* raise_for_status raised
fetch_github_release(repo, failed) ==
    IF failed THEN ( "error" :> "Failed to fetch release" )
    ELSE ( "tag_name" :> "v1.0 " \o repo @@ "name" :> "Release 1.0" @@
           "published_at" :> "2026-01-01T00:00:00Z" @@ "body" :> "Fixes" )

\* fetch_github_repo_info(repo); the counts are written as text
fetch_github_repo_info(repo, failed) ==
    IF failed THEN ( "error" :> "Failed to fetch repo info" )
    ELSE ( "stars" :> "100" @@ "forks" :> "10" @@ "license" :> "MIT License" )

\* The four requests of get_latest_versions, the first two those of get_changelog
Requests ==
    { << OPENCODE_REPO, "release" >>, << OHMY_REPO, "release" >>,
      << OPENCODE_REPO, "info" >>, << OHMY_REPO, "info" >> }

\* result of get_latest_versions; failing is the set of requests that fail
VersionsOf(repo, failing) ==
    LET release == fetch_github_release(repo, << repo, "release" >> \in failing)
        info == fetch_github_repo_info(repo, << repo, "info" >> \in failing)
    IN  ( "version" :> Get(release, "tag_name", "") @@
          "release_name" :> Get(release, "name", "") @@
          "released_at" :> Get(release, "published_at", "") @@
          "stars" :> Get(info, "stars", "0") @@
          "forks" :> Get(info, "forks", "0") @@
          "license" :> Get(info, "license", "") )

\* result of get_changelog
ChangesOf(repo, failing) ==
    LET release == fetch_github_release(repo, << repo, "release" >> \in failing)
    IN  ( "version" :> Get(release, "tag_name", "") @@
          "changes" :> Get(release, "body", "") )

\* result of get_features (the first entry of each list stands for the list)
FEATURES ==
    ( "opencode" :>
          ( "description" :> "Open source AI coding agent for Terminal, Desktop, and IDE" @@
            "key_features" :>
                << "Multi-model support (Claude, OpenAI, Google, local models via Ollama)" >> ) @@
      "oh-my-opencode" :>
          ( "description" :> "Agent harness with batteries-included orchestration" @@
            "key_features" :> << "Sisyphus: The agent that codes like your team" >> ) )

\* result of get_faq (the first entry of each list stands for the list)
FAQ ==
    ( "opencode" :> ( "common_questions" :> << "Q: How do I update OpenCode?" >> ) @@
      "oh-my-opencode" :>
          ( "common_questions" :> << "Q: How do I install oh-my-opencode?" >> ) )

\* The keys of main's handlers
handlers == { "versions", "changelog", "features", "faq" }

\* What a handler computes when the cache does not answer
Computed(query_type, failing) ==
    IF query_type = "versions"
    THEN ( "opencode" :> VersionsOf(OPENCODE_REPO, failing) @@
           "oh-my-opencode" :> VersionsOf(OHMY_REPO, failing) )
    ELSE IF query_type = "changelog"
    THEN ( "opencode" :> ChangesOf(OPENCODE_REPO, failing) @@
           "oh-my-opencode" :> ChangesOf(OHMY_REPO, failing) )
    ELSE IF query_type = "features" THEN FEATURES
    ELSE FAQ

\* A mutation of Handler: an answer is saved only if no request failed
Handler_saves_successes_only(query_type, file, now, failing, writable) ==
    LET cache == load_cache(file, now) IN
    IF cache.found /\ cache.data # EmptyDict /\ query_type \in DOMAIN cache.data
    THEN [result |-> cache.data[query_type], source |-> "cache", file |-> file, warned |-> FALSE]
    ELSE LET r == Computed(query_type, failing)
         IN  IF failing # {}
             THEN [result |-> r, source |-> "fetch", file |-> file, warned |-> FALSE]
             ELSE [result |-> r, source |-> "fetch",
                   file |-> save_cache(file, ( query_type :> r ), now, writable),
                   warned |-> ~writable]

\* get_latest_versions, get_changelog, get_features, get_faq: the cached answer
\* if the cache is fresh and holds the query type, else the computed answer,
\* saved as the cache's only entry; warned tells whether save_cache has written
\* its warning to stderr
Handler(query_type, file, now, failing, writable) ==
    LET cache == load_cache(file, now) IN
    IF cache.found /\ cache.data # EmptyDict /\ query_type \in DOMAIN cache.data
    THEN [result |-> cache.data[query_type], source |-> "cache", file |-> file, warned |-> FALSE]
    ELSE LET r == Computed(query_type, failing)
         IN  [result |-> r, source |-> "fetch",
              file |-> save_cache(file, ( query_type :> r ), now, writable),
              warned |-> ~writable]

\* The command lines (after the script's name)
Argvs ==
    { << >>, << "versions" >>, << "changelog" >>, << "features" >>, << "faq" >>,
      << "FAQ" >>, << "bogus" >> }

\* sys.argv[1].lower(), for each command line that has an argument
LoweredArgument == [ argv \in Argvs \ { << >> } |-> Lower(argv[1]) ]

\* query_type = sys.argv[1].lower()
QueryType(argv) == LoweredArgument[argv]

\* main_exit without the .lower() of the query type
main_exit_case_sensitive(argv, requests_imported) ==
    IF ~ requests_imported \/ Len(argv) < 1 \/ argv[1] \notin handlers THEN 1 ELSE 0

\* The exit status of fetch_info.py run with the arguments argv: the import of
\* requests failing ends the script before main
main_exit(argv, requests_imported) ==
    IF ~ requests_imported THEN 1
    ELSE IF Len(argv) < 1 THEN 1
    ELSE IF QueryType(argv) \notin handlers THEN 1
    ELSE 0

Never == 0 - 1

NoInvocation ==
    [made |-> FALSE, argv |-> << >>, at |-> 0, exit |-> 0, source |-> "none",
     printed |-> EmptyDict, file |-> NoCacheFile, before |-> Never, warned |-> FALSE]

\* The fetcher has not run
NoFetch ==
    /\ cache_file = NoCacheFile
    /\ clock = 0
    /\ requests = TRUE
    /\ saved_at = [ q \in handlers |-> Never ]
    /\ invocation = NoInvocation

(***************************************************************************)
(* Orchestrator                                                            *)
(***************************************************************************)

NoCall == [made |-> FALSE, dir_path |-> << >>, child_dirs |-> << >>, child_summaries |-> << >>]

ResetLocals ==
    /\ directories' = << >>
    /\ depth' = 0
    /\ idx' = 0
    /\ targets' = << >>
    /\ dir_summaries' = EmptyDict
    /\ updates' = << >>
    /\ existing_descriptions' = EmptyDict
    /\ batch_size' = 0
    /\ classified' = << >>
    /\ propagated' = << >>
    /\ lastcall' = NoCall

Init ==
    /\ root \in Roots
    /\ cwd \in Cwds(root)
    /\ rawfs = FixedDirs
    /\ faults = NoFaults
    /\ NoFetch
    /\ doc = NoDoc
    /\ pc = "idle"
    /\ verb = "none"
    /\ outcome = "none"
    /\ batch_size = 0
    /\ directories = << >>
    /\ depth = 0
    /\ idx = 0
    /\ targets = << >>
    /\ dir_summaries = EmptyDict
    /\ updates = << >>
    /\ existing_descriptions = EmptyDict
    /\ doc0 = NoDoc
    /\ walk0 = << >>
    /\ classified = << >>
    /\ propagated = << >>
    /\ lastcall = NoCall
    /\ call = << >>
    /\ result = << >>

\* child_dirs = [d for d in directories if d.parent == dir_path and d != dir_path]
child_dirs_of(dir_path, dirs) ==
    SelectSeq(dirs, LAMBDA d : Parent(Abs(root, d)) = Abs(root, dir_path) /\ d # dir_path)

\* A directory appears in the project between two invocations
MkDir(p) ==
    /\ pc = "idle"
    /\ p \in Universe \ rawfs
    /\ Parent(p) \in rawfs
    /\ rawfs' = rawfs \cup {p}
    /\ UNCHANGED << fetch_vars, root, cwd, faults, doc, pc, verb, outcome, batch_size, directories, depth, idx,
                    targets, dir_summaries, updates, existing_descriptions, doc0, walk0,
                    classified, propagated, lastcall, call, result >>

\* generate_modules_incremental up to its leaf loop: the skeleton is written
StartGenerate(v, bs, ts) ==
    /\ doc' = generate_initial_skeleton(root, rawfs, ts)
    /\ directories' = find_all_directories(root, rawfs)
    /\ targets' = get_leaf_directories(root, directories')
    /\ dir_summaries' = EmptyDict
    /\ updates' = << >>
    /\ idx' = 1
    /\ depth' = 0
    /\ batch_size' = bs
    /\ pc' = "leaf"
    /\ verb' = v
    /\ outcome' = "running"
    /\ doc0' = NoDoc
    /\ walk0' = directories'
    /\ classified' = << >>
    /\ propagated' = << >>
    /\ lastcall' = NoCall
    /\ UNCHANGED << fetch_vars, root, cwd, rawfs, faults, existing_descriptions, call, result >>

\* interactive_mode with no modules.md: a fresh generation
GenerateFresh ==
    /\ pc = "idle"
    /\ doc = NoDoc
    /\ \E bs \in BatchSizes, ts \in Timestamps : StartGenerate("fresh", bs, ts)

\* interactive_mode, choice 1 (also taken on end of input): backup, unlink, generate
GenerateOverwrite ==
    /\ pc = "idle"
    /\ doc # NoDoc
    /\ \E bs \in BatchSizes, ts \in Timestamps : StartGenerate("strategy1", bs, ts)

\* An exception nothing catches ends the process: traceback, exit status 1
Raise ==
    /\ pc' = "done"
    /\ outcome' = "error"

\* One iteration of the leaf loop, up to and including batch_update_descriptions;
\* the loop has no try/except
LeafStep ==
    /\ pc = "leaf"
    /\ idx <= Len(targets)
    /\ LET leaf_dir == targets[idx]
           summary == analyze_directory_code(Abs(root, leaf_dir), cwd, FilesOf(leaf_dir))
           upd == Append(updates, << leaf_dir, summary >>)
       IN  IF analyze_directory_code_raises(Abs(root, leaf_dir), cwd, Listable(leaf_dir))
           THEN /\ Raise
                /\ UNCHANGED << doc, idx, dir_summaries, classified, updates >>
           ELSE /\ dir_summaries' = DictSet(dir_summaries, leaf_dir, summary)
                /\ classified' = Append(classified, leaf_dir)
                /\ updates' = upd
                /\ UNCHANGED outcome
                /\ IF Len(upd) >= batch_size
                   THEN /\ doc' = batch_update_descriptions(doc, upd, root)
                        /\ pc' = "leaf_mark"
                        /\ idx' = idx
                   ELSE /\ idx' = idx + 1
                        /\ UNCHANGED << doc, pc >>
    /\ UNCHANGED << fetch_vars, root, cwd, rawfs, faults, verb, batch_size, directories, depth, targets,
                    existing_descriptions, doc0, walk0, propagated, lastcall, call, result >>

\* The rest of a flush in the leaf loop: update_progress_header, updates.clear()
LeafMark ==
    /\ pc = "leaf_mark"
    /\ \E ts \in Timestamps :
           doc' = update_progress_header(doc, get_full_path(targets[idx], root), ts)
    /\ updates' = << >>
    /\ idx' = idx + 1
    /\ pc' = "leaf"
    /\ UNCHANGED << fetch_vars, root, cwd, rawfs, faults, verb, outcome, batch_size, directories, depth, targets,
                    dir_summaries, existing_descriptions, doc0, walk0, classified, propagated,
                    lastcall, call, result >>

\* A mutation of first_depth: the depth loop starts one level too high
first_depth_late(dirs) == max_depth(dirs) - 2

\* range(max_depth - 1, -1, -1) starts here
first_depth(dirs) == max_depth(dirs) - 1

\* The directories the depth loop propagates at depth d: depth_map[d] without the leaves
DepthLevel(d) ==
    SelectSeq(depth_map(directories, d), LAMBDA p : \A i \in DOMAIN targets : targets[i] # p)

\* After the leaf loop: the remaining leaf updates are written
LeafEnd ==
    /\ pc = "leaf"
    /\ idx > Len(targets)
    /\ doc' = IF Len(updates) > 0 THEN batch_update_descriptions(doc, updates, root) ELSE doc
    /\ updates' = << >>
    /\ depth' = first_depth(directories)
    /\ idx' = 1
    /\ pc' = "depth"
    /\ UNCHANGED << fetch_vars, root, cwd, rawfs, faults, verb, outcome, batch_size, directories, targets,
                    dir_summaries, existing_descriptions, doc0, walk0, classified, propagated,
                    lastcall, call, result >>

\* One iteration of the depth loop for a non-leaf directory
DepthStep ==
    /\ pc = "depth"
    /\ depth >= 0
    /\ idx <= Len(DepthLevel(depth))
    /\ LET dir_path == DepthLevel(depth)[idx]
           child_dirs == child_dirs_of(dir_path, directories)
           known == SelectSeq(child_dirs, LAMBDA ch : ch \in DOMAIN dir_summaries)
           child_summaries == [ i \in DOMAIN known |-> dir_summaries[known[i]] ]
       IN  \E summary \in propagate_summary(Abs(root, dir_path), child_summaries, root, cwd,
                                            FilesOf(dir_path)) :
             LET upd == Append(updates, << dir_path, summary >>) IN
             /\ lastcall' = [made |-> TRUE, dir_path |-> dir_path, child_dirs |-> child_dirs,
                             child_summaries |-> child_summaries]
             /\ dir_summaries' = DictSet(dir_summaries, dir_path, summary)
             /\ propagated' = Append(propagated, dir_path)
             /\ updates' = upd
             /\ IF Len(upd) >= batch_size
                THEN /\ doc' = batch_update_descriptions(doc, upd, root)
                     /\ pc' = "depth_mark"
                     /\ idx' = idx
                ELSE /\ idx' = idx + 1
                     /\ UNCHANGED << doc, pc >>
    /\ UNCHANGED << fetch_vars, root, cwd, rawfs, faults, verb, outcome, batch_size, directories, depth, targets,
                    existing_descriptions, doc0, walk0, classified, call, result >>

\* The rest of a flush in the depth loop
DepthMark ==
    /\ pc = "depth_mark"
    /\ \E ts \in Timestamps :
           doc' = update_progress_header(doc, get_full_path(DepthLevel(depth)[idx], root), ts)
    /\ updates' = << >>
    /\ idx' = idx + 1
    /\ pc' = "depth"
    /\ UNCHANGED << fetch_vars, root, cwd, rawfs, faults, verb, outcome, batch_size, directories, depth, targets,
                    dir_summaries, existing_descriptions, doc0, walk0, classified, propagated,
                    lastcall, call, result >>

\* The end of a depth level: its remaining updates are written
DepthEnd ==
    /\ pc = "depth"
    /\ depth >= 0
    /\ idx > Len(DepthLevel(depth))
    /\ doc' = IF Len(updates) > 0 THEN batch_update_descriptions(doc, updates, root) ELSE doc
    /\ updates' = << >>
    /\ depth' = depth - 1
    /\ idx' = 1
    /\ UNCHANGED << fetch_vars, root, cwd, rawfs, faults, pc, verb, outcome, batch_size, directories, targets,
                    dir_summaries, existing_descriptions, doc0, walk0, classified, propagated,
                    lastcall, call, result >>

\* After the depth loop: remove_progress_header
Finalize ==
    /\ pc = "depth"
    /\ depth < 0
    /\ doc' = remove_progress_header(doc)
    /\ pc' = "validate"
    /\ UNCHANGED << fetch_vars, root, cwd, rawfs, faults, verb, outcome, batch_size, directories, depth, idx,
                    targets, dir_summaries, updates, existing_descriptions, doc0, walk0,
                    classified, propagated, lastcall, call, result >>

\* An invocation returns
Return ==
    /\ pc' = "done"
    /\ outcome' = "ok"

Locals ==
    << batch_size, directories, depth, idx, targets, dir_summaries, updates,
       existing_descriptions, classified, propagated, lastcall >>

\* validate_and_fix_missing_descriptions up to its loop
ValidateBody ==
    IF doc = NoDoc
    THEN Return /\ UNCHANGED Locals
    ELSE LET dirs == find_all_directories(root, rawfs)
             missing_or_invalid ==
                 get_unanalyzed_directories(dirs, parse_existing_descriptions(doc), root)
         IN  IF Len(missing_or_invalid) = 0
             THEN Return /\ UNCHANGED Locals
             ELSE /\ pc' = "fix"
                  /\ outcome' = "running"
                  /\ directories' = dirs
                  /\ targets' = missing_or_invalid
                  /\ idx' = 1
                  /\ updates' = << >>
                  /\ UNCHANGED << depth, dir_summaries, existing_descriptions, batch_size,
                                  classified, propagated, lastcall >>

\* The validation step that ends generate_modules_incremental
ValidateStart ==
    /\ pc = "validate"
    /\ ValidateBody
    /\ UNCHANGED << fetch_vars, root, cwd, rawfs, faults, doc, verb, doc0, walk0, call, result >>

\* The validate verb
ValidateVerb ==
    /\ pc = "idle"
    /\ verb' = "validate"
    /\ doc0' = doc
    /\ ValidateBody
    /\ UNCHANGED << fetch_vars, root, cwd, rawfs, faults, doc, walk0, call, result >>

\* One iteration of the validation loop; its except branch appends a default
\* label and does not flush
FixStep ==
    /\ pc = "fix"
    /\ idx <= Len(targets)
    /\ LET dir_path == targets[idx]
           summary == analyze_directory_code(Abs(root, dir_path), cwd, FilesOf(dir_path))
           upd == Append(updates, << dir_path, summary >>)
           default == Truncate(PathName(Abs(root, dir_path)), MaxNameInLabel) \o "RelFtM"
       IN  IF analyze_directory_code_raises(Abs(root, dir_path), cwd, Listable(dir_path))
           THEN /\ updates' = Append(updates, << dir_path, default >>)
                /\ UNCHANGED doc
           ELSE IF Len(upd) >= FixedBatchSize
           THEN /\ doc' = batch_update_descriptions(doc, upd, root)
                /\ updates' = << >>
           ELSE /\ updates' = upd
                /\ UNCHANGED doc
    /\ idx' = idx + 1
    /\ UNCHANGED << fetch_vars, root, cwd, rawfs, faults, pc, verb, outcome, batch_size, directories, depth,
                    targets, dir_summaries, existing_descriptions, doc0, walk0, classified,
                    propagated, lastcall, call, result >>

\* After the validation loop: the remaining updates are written
FixEnd ==
    /\ pc = "fix"
    /\ idx > Len(targets)
    /\ doc' = IF Len(updates) > 0 THEN batch_update_descriptions(doc, updates, root) ELSE doc
    /\ updates' = << >>
    /\ Return
    /\ UNCHANGED << fetch_vars, root, cwd, rawfs, faults, verb, batch_size, directories, depth, idx, targets,
                    dir_summaries, existing_descriptions, doc0, walk0, classified, propagated,
                    lastcall, call, result >>

\* interactive_mode, choices 2 and 3, up to the loop of process_incremental_update
StartIncremental(v, processing, ts) ==
    /\ pc = "idle"
    /\ doc # NoDoc
    /\ verb' = v
    /\ doc0' = doc
    /\ LET existing == parse_existing_descriptions(doc)
           dirs == find_all_directories(root, rawfs)
           target_dirs == IF v = "strategy2"
                          THEN get_unanalyzed_directories(dirs, existing, root)
                          ELSE get_new_directories(dirs, existing, root)
       IN  IF Len(target_dirs) = 0
           THEN /\ Return
                /\ UNCHANGED doc
                /\ UNCHANGED Locals
           ELSE /\ doc' = update_progress_header(doc, processing, ts)
                /\ pc' = "incr"
                /\ outcome' = "running"
                /\ directories' = dirs
                /\ targets' = target_dirs
                /\ existing_descriptions' = existing
                /\ dir_summaries' = EmptyDict
                /\ updates' = << >>
                /\ depth' = max_depth(dirs)
                /\ idx' = 1
                /\ UNCHANGED << batch_size, classified, propagated, lastcall >>
    /\ UNCHANGED << fetch_vars, root, cwd, rawfs, faults, walk0, call, result >>

ContinueUnanalyzed ==
    \E ts \in Timestamps :
        StartIncremental("strategy2", "Processing unanalyzed directories", ts)

CheckNew ==
    \E ts \in Timestamps :
        StartIncremental("strategy3", "Processing new directories", ts)

\* The target directories process_incremental_update goes through at depth d
IncrLevel(d) ==
    SelectSeq(depth_map(directories, d), LAMBDA p : \E i \in DOMAIN targets : targets[i] = p)

\* child_summaries of process_incremental_update
incremental_child_summaries(child_dirs, summaries, existing) ==
    LET known == SelectSeq(child_dirs, LAMBDA ch :
                     ch \in DOMAIN summaries \/ get_full_path(ch, root) \in DOMAIN existing)
    IN  [ i \in DOMAIN known |->
            IF known[i] \in DOMAIN summaries THEN summaries[known[i]]
            ELSE existing[get_full_path(known[i], root)] ]

\* One iteration of the loop of process_incremental_update for a target directory
IncrStep ==
    /\ pc = "incr"
    /\ depth >= 0
    /\ idx <= Len(IncrLevel(depth))
    /\ LET dir_path == IncrLevel(depth)[idx]
           child_dirs == child_dirs_of(dir_path, directories)
           child_summaries ==
               incremental_child_summaries(child_dirs, dir_summaries, existing_descriptions)
           summaries ==
               IF is_leaf_directory(root, dir_path, directories)
               THEN { analyze_directory_code(Abs(root, dir_path), cwd, FilesOf(dir_path)) }
               ELSE propagate_summary(Abs(root, dir_path), child_summaries, root, cwd,
                                      FilesOf(dir_path))
           classifies == is_leaf_directory(root, dir_path, directories)
                             \/ Len(child_summaries) = 0
       IN  IF classifies /\ analyze_directory_code_raises(Abs(root, dir_path), cwd,
                                                           Listable(dir_path))
           THEN /\ Raise
                /\ UNCHANGED << doc, idx, dir_summaries, updates >>
           ELSE \E summary \in summaries :
             LET upd == Append(updates, << dir_path, summary >>) IN
             /\ dir_summaries' = DictSet(dir_summaries, dir_path, summary)
             /\ updates' = upd
             /\ UNCHANGED outcome
             /\ IF Len(upd) >= FixedBatchSize
                THEN /\ doc' = batch_update_descriptions(doc, upd, root)
                     /\ pc' = "incr_mark"
                     /\ idx' = idx
                ELSE /\ idx' = idx + 1
                     /\ UNCHANGED << doc, pc >>
    /\ UNCHANGED << fetch_vars, root, cwd, rawfs, faults, verb, batch_size, directories, depth, targets,
                    existing_descriptions, doc0, walk0, classified, propagated, lastcall,
                    call, result >>

\* The rest of a flush in process_incremental_update
IncrMark ==
    /\ pc = "incr_mark"
    /\ \E ts \in Timestamps :
           doc' = update_progress_header(doc, get_full_path(IncrLevel(depth)[idx], root), ts)
    /\ updates' = << >>
    /\ idx' = idx + 1
    /\ pc' = "incr"
    /\ UNCHANGED << fetch_vars, root, cwd, rawfs, faults, verb, outcome, batch_size, directories, depth, targets,
                    dir_summaries, existing_descriptions, doc0, walk0, classified, propagated,
                    lastcall, call, result >>

\* The end of a depth level of process_incremental_update
IncrNextDepth ==
    /\ pc = "incr"
    /\ depth >= 0
    /\ idx > Len(IncrLevel(depth))
    /\ depth' = depth - 1
    /\ idx' = 1
    /\ UNCHANGED << fetch_vars, root, cwd, rawfs, faults, doc, pc, verb, outcome, batch_size, directories, targets,
                    dir_summaries, updates, existing_descriptions, doc0, walk0, classified,
                    propagated, lastcall, call, result >>

\* After the loop of process_incremental_update: the remaining updates are written
IncrEnd ==
    /\ pc = "incr"
    /\ depth < 0
    /\ doc' = IF Len(updates) > 0 THEN batch_update_descriptions(doc, updates, root) ELSE doc
    /\ updates' = << >>
    /\ pc' = "incr_remove"
    /\ UNCHANGED << fetch_vars, root, cwd, rawfs, faults, verb, outcome, batch_size, directories, depth, idx,
                    targets, dir_summaries, existing_descriptions, doc0, walk0, classified,
                    propagated, lastcall, call, result >>

\* The end of process_incremental_update: remove_progress_header
IncrRemove ==
    /\ pc = "incr_remove"
    /\ doc' = remove_progress_header(doc)
    /\ Return
    /\ UNCHANGED << fetch_vars, root, cwd, rawfs, faults, verb, doc0, walk0, call, result >>
    /\ UNCHANGED Locals

\* The process has exited; the next invocation starts from the file system alone
Forget ==
    /\ pc' = "idle"
    /\ verb' = "none"
    /\ outcome' = "none"
    /\ doc0' = NoDoc
    /\ ResetLocals
    /\ UNCHANGED << fetch_vars, root, cwd, rawfs, faults, doc, walk0, call, result >>

\* The process exits after its invocation has returned
Exit ==
    /\ pc = "done"
    /\ Forget

\* The process is killed between two writes of the document
Interrupt ==
    /\ pc \notin { "idle", "done" }
    /\ Forget

Next ==
    \/ \E p \in Universe : MkDir(p)
    \/ GenerateFresh
    \/ GenerateOverwrite
    \/ LeafStep
    \/ LeafMark
    \/ LeafEnd
    \/ DepthStep
    \/ DepthMark
    \/ DepthEnd
    \/ Finalize
    \/ ValidateStart
    \/ ValidateVerb
    \/ FixStep
    \/ FixEnd
    \/ ContinueUnanalyzed
    \/ CheckNew
    \/ IncrStep
    \/ IncrMark
    \/ IncrNextDepth
    \/ IncrEnd
    \/ IncrRemove
    \/ Exit
    \/ Interrupt

Spec == Init /\ [][Next]_vars

(***************************************************************************)
(* Properties of the orchestrator                                          *)
(***************************************************************************)

\* The directories a walk of the project returns now
WalkNow == find_all_directories(root, rawfs)

\* The label the label map read back from document d holds for directory p, "" if none
LabelOf(d, p) == DictGet(parse_existing_descriptions(d), get_full_path(p, root))

\* The 'fullPath - label' lines of directory p in document d
LinesOf(d, p) ==
    { i \in DOMAIN d : StartsWith(d[i], get_full_path(p, root) \o SEPARATOR) }

MarkerLines(d) == { i \in DOMAIN d : IsMarkerLine(d[i]) }

\* A full generation (fresh, or strategy 1) has returned
FullGenerateDone == pc = "done" /\ verb \in { "fresh", "strategy1" }

\* C1: after a full generate run (skeleton, leaf phase, depth propagation, finalizing
\* validation) every directory returned by the walker has an entry for its full path in
\* the label map read back from the document, with a label that is neither empty nor
\* the placeholder.
C1_Completeness ==
    FullGenerateDone =>
        \A i \in DOMAIN WalkNow : LabelOf(doc, WalkNow[i]) \notin { "", PLACEHOLDER }

\* C2: after a completed strategy-3 run, and after a completed validate pass, every
\* directory returned by the walker has exactly one 'fullPath - label' line in the
\* document, also a directory that had no line before the run.
C2_NeverAbsent ==
    (pc = "done" /\ verb \in { "strategy3", "validate" } /\ doc # NoDoc) =>
        \A i \in DOMAIN WalkNow : Cardinality(LinesOf(doc, WalkNow[i])) = 1

\* C5: whenever an invocation of the generate verb (fresh generation, strategy 1, 2 or 3)
\* returns normally, the document contains no progress-marker line.
C5_ZeroMarkersAtCompletion ==
    (pc = "done" /\ verb \in { "fresh", "strategy1", "strategy2", "strategy3" }) =>
        MarkerLines(doc) = {}

\* C6: when propagate_summary is called for a non-leaf directory in a full generation,
\* each of its direct child directories already has a label in the summary buffer of the
\* run: the child-label sequence has one entry per child and is not empty.
C6_ChildrenLabelledFirst ==
    lastcall.made =>
        /\ Len(lastcall.child_dirs) > 0
        /\ Len(lastcall.child_summaries) = Len(lastcall.child_dirs)
        /\ \A i \in DOMAIN lastcall.child_dirs :
               /\ lastcall.child_dirs[i] \in DOMAIN dir_summaries
               /\ lastcall.child_summaries[i] = dir_summaries[lastcall.child_dirs[i]]

\* The root is propagated from its two children, one of them a parent itself
C6_Witness ==
    /\ lastcall.made
    /\ lastcall.dir_path = << >>
    /\ Len(lastcall.child_dirs) = 2
    /\ \E i \in DOMAIN propagated : propagated[i] = << "src" >>

\* The number of times p occurs in the sequence s
Occurrences(s, p) == Cardinality({ i \in DOMAIN s : s[i] = p })

HasChildIn(p, dirs) == \E i \in DOMAIN dirs : dirs[i] # p /\ Parent(dirs[i]) = p

\* C7: a directory of the walker output a run works on is a leaf iff no other directory
\* of the output has it as direct parent; and when the two phases of a full generation are over every
\* directory was labelled by exactly one of the leaf classifier (leaf phase) and the
\* propagator (depth phase), once.
C7_LeafParentPartition ==
    /\ \A i \in DOMAIN directories :
           is_leaf_directory(root, directories[i], directories)
               <=> ~HasChildIn(directories[i], directories)
    /\ (pc = "validate" \/ FullGenerateDone) =>
           \A i \in DOMAIN directories :
               /\ Occurrences(classified, directories[i])
                      + Occurrences(propagated, directories[i]) = 1
               /\ Occurrences(classified, directories[i]) = 1
                      <=> ~HasChildIn(directories[i], directories)

\* Both phases of a full generation of the whole project are over
C7_Witness ==
    /\ pc = "validate"
    /\ Len(directories) = 5
    /\ Len(classified) = 2
    /\ Len(propagated) = 3


\* The line of directory p with the placeholder label
PlaceholderLine(p) == get_full_path(p, root) \o SEPARATOR \o PLACEHOLDER

\* The directories of the walk that document d holds at the placeholder label
AtPlaceholder(d) ==
    { p \in Range(WalkNow) : \E i \in DOMAIN d : d[i] = PlaceholderLine(p) }

\* A strategy-2 run has returned that started from a document with exactly one directory
\* at the placeholder label
ResumedOne ==
    /\ pc = "done"
    /\ verb = "strategy2"
    /\ Cardinality(AtPlaceholder(doc0)) = 1

\* Document d with the line of p relabelled, and nothing else changed in document d0
RelabelledOnly(d0, d, p) ==
    /\ Len(d) = Len(d0)
    /\ \A i \in DOMAIN d0 :
           IF d0[i] = PlaceholderLine(p)
           THEN /\ StartsWith(d[i], get_full_path(p, root) \o SEPARATOR)
                /\ d[i] # PlaceholderLine(p)
                /\ Len(d[i]) > Len(get_full_path(p, root) \o SEPARATOR)
           ELSE d[i] = d0[i]

\* The document without its progress-marker lines and the blank lines at its end
WithoutMarker(d) == DropTrailingBlank(SelectSeq(d, LAMBDA line : ~IsMarkerLine(line)))

\* C4 to the letter: a strategy-2 run that starts from a document with exactly one directory
\* at the placeholder label ends with that directory's line carrying a new label and
\* every other line of the document as it was before the run.
C4_ResumeFrameEveryLine ==
    ResumedOne => \A p \in AtPlaceholder(doc0) : RelabelledOnly(doc0, doc, p)

NoRun ==
    /\ doc = NoDoc
    /\ verb = "none"
    /\ outcome = "none"
    /\ batch_size = 0
    /\ directories = << >>
    /\ depth = 0
    /\ idx = 0
    /\ targets = << >>
    /\ dir_summaries = EmptyDict
    /\ updates = << >>
    /\ existing_descriptions = EmptyDict
    /\ doc0 = NoDoc
    /\ walk0 = << >>
    /\ classified = << >>
    /\ propagated = << >>
    /\ lastcall = NoCall

NoRunVars ==
    << doc, verb, outcome, batch_size, directories, depth, idx, targets, dir_summaries,
       updates, existing_descriptions, doc0, walk0, classified, propagated, lastcall >>

\* The sequences over S of length at most n
SeqsUpTo(S, n) == UNION { [1..k -> S] : k \in 0..n }

\* C18: the label a directory receives from the classifier is relative to the
\* project root given to generate: it is the same for two runs that differ only
\* in the process's current working directory.
C18_LabelIndependentOfCwd ==
    (pc \in { "leaf", "leaf_mark" } /\ Len(classified) > 0) =>
        LET d == classified[Len(classified)] IN
        \A c \in Cwds(root) :
            dir_summaries[d] = analyze_directory_code(Abs(root, d), c, FilesOf(d))

\* A directory below depth 1 was classified by a process running outside the
\* project, and got the label it gets from inside
C18_Witness ==
    /\ pc \in { "leaf", "leaf_mark" }
    /\ cwd # root
    /\ Len(classified) > 0
    /\ classified[Len(classified)] = << "src", "auth" >>
    /\ dir_summaries[<< "src", "auth" >>]
           = analyze_directory_code(Abs(root, << "src", "auth" >>), root,
                                    FilesOf(<< "src", "auth" >>))

\* The exit status of the process of an invocation that has ended: 1 after an
\* exception nothing caught, 0 after main has returned
exit_status == IF outcome = "error" THEN 1 ELSE 0

\* C13: the validate verb run when no document exists reports the condition and
\* the process ends with a non-zero exit status, with no document created.
C13_ValidateMissingExitsNonZero ==
    (pc = "done" /\ verb = "validate" /\ doc0 = NoDoc)
        => (exit_status # 0 /\ doc = NoDoc)

\* The validate verb has ended where no document existed, and created none
C13_Witness ==
    /\ pc = "done"
    /\ verb = "validate"
    /\ doc0 = NoDoc
    /\ doc = NoDoc

(* ---- a fresh generation of a project some of whose directories fail ---- *)

\* The project: the directories of Universe and src/zz, which no path rule labels
ContainTree == FixedDirs \cup Universe \cup { << "src", "zz" >> }

\* The directories whose listing may fail (leaves: the walk is not affected)
ListingFaults == { << "src", "zz" >>, << "src", "auth" >> }

\* The directories whose files may fail to be read
ReadingFaults == { << "src", "zz" >>, << "a - b", "utils" >> }

InitContain ==
    /\ root \in Roots
    /\ cwd \in Cwds(root)
    /\ rawfs = ContainTree
    /\ faults \in [listing : SUBSET ListingFaults, reading : SUBSET ReadingFaults]
    /\ NoFetch
    /\ pc = "idle"
    /\ call = << >>
    /\ result = << >>
    /\ NoRun

\* --generate and what follows it, up to the end of the process
NextContain ==
    \/ GenerateFresh
    \/ LeafStep
    \/ LeafMark
    \/ LeafEnd
    \/ DepthStep
    \/ DepthMark
    \/ DepthEnd
    \/ Finalize
    \/ ValidateStart
    \/ FixStep
    \/ FixEnd

SpecContain == InitContain /\ [][NextContain]_vars

\* C11: during a fresh generation, a directory whose classification fails (its
\* listing or the reading of its files fails) gets a fallback label and the
\* run goes on to its end: the failure never comes out of the run.
C11_FailureContained == verb = "fresh" => outcome # "error"

\* A run where the reading of a directory's files fails: the directory is
\* labelled and the run completes
C11_Witness ==
    /\ verb = "fresh"
    /\ pc = "done"
    /\ outcome = "ok"
    /\ << "src", "zz" >> \in faults.reading
    /\ << "src", "zz" >> \in DOMAIN dir_summaries
    /\ dir_summaries[<< "src", "zz" >>] = "NoValid"

(* ---- the report store, called in any order ---- *)

\* The project roots: the second has a name that begins like a progress marker
DocRoots == { << "home", "proj" >>, << "home", "<!-- Last Update: x" >> }

\* The project's directories: src holds a directory whose name begins like the separator
DocTree == FixedDirs \cup { << "src" >>, << "src", " - b" >> }

\* The updates applyUpdates is called with
DocUpdates ==
    { << << >>, "PrjM" >>, << << >>, "PlatCo" >>, << << "src" >>, "SrcDr" >>,
      << << "src" >>, "AuthMd" >> }

\* The directories setProgressMarker is called with
DocProcessing == { "Initializing", "src/" }

NoStoreCall == [op |-> "none", missing |-> FALSE]

InitDoc ==
    /\ root \in DocRoots
    /\ cwd = root
    /\ rawfs = DocTree
    /\ faults = NoFaults
    /\ NoFetch
    /\ pc = "docops"
    /\ call = NoStoreCall
    /\ result = "none"
    /\ NoRun

\* A store operation is called and returns r
StoreCall(op, r) ==
    /\ call' = [op |-> op, missing |-> doc = NoDoc]
    /\ doc' = r.doc
    /\ result' = r.signal
    /\ UNCHANGED << fetch_vars, root, cwd, rawfs, faults, pc, verb, outcome, batch_size, directories,
                    depth, idx, targets, dir_summaries, updates, existing_descriptions,
                    doc0, walk0, classified, propagated, lastcall >>

CreateSkeleton ==
    /\ pc = "docops"
    /\ \E ts \in Timestamps :
           StoreCall("createSkeleton", create_skeleton_file(doc, root, rawfs, ts))

ApplyUpdatesCall ==
    /\ pc = "docops"
    /\ \E u \in DocUpdates :
           StoreCall("applyUpdates", batch_update_descriptions_file(doc, << u >>, root))

SetProgressMarker ==
    /\ pc = "docops"
    /\ \E processing_dir \in DocProcessing, ts \in Timestamps :
           StoreCall("setProgressMarker", update_progress_header_file(doc, processing_dir, ts))

ClearProgressMarker ==
    /\ pc = "docops"
    /\ StoreCall("clearProgressMarker", remove_progress_header_file(doc))

NextDoc ==
    \/ CreateSkeleton
    \/ ApplyUpdatesCall
    \/ SetProgressMarker
    \/ ClearProgressMarker

SpecDoc == InitDoc /\ [][NextDoc]_vars

\* The store operations that require an existing document
RequiresDocument == { "applyUpdates", "setProgressMarker", "clearProgressMarker" }

\* C12: each store operation that requires an existing document (applyUpdates,
\* setProgressMarker, clearProgressMarker), called while no document exists,
\* signals a document-not-found condition to its caller and creates no document.
C12_MissingDocumentSignalled ==
    (pc = "docops" /\ call.op \in RequiresDocument /\ call.missing)
        => (result = "FileNotFoundError" /\ doc = NoDoc)

\* applyUpdates was called without a document: it raised and created nothing
C12_Witness ==
    /\ pc = "docops"
    /\ call = [op |-> "applyUpdates", missing |-> TRUE]
    /\ result = "FileNotFoundError"
    /\ doc = NoDoc

\* The line the skeleton wrote for directory p, 0 if it wrote none
SkeletonLineOf(p) ==
    LET skeleton == generate_initial_skeleton(root, rawfs, "T1") IN
    FirstMatch({ i \in DOMAIN skeleton :
                   skeleton[i] = get_full_path(p, root) \o SEPARATOR \o PLACEHOLDER })

\* applyUpdates has run on an existing document
AppliedUpdates == call'.op = "applyUpdates" /\ ~call'.missing

\* C23: batch_update_descriptions preserves the number and the order of the document's
\* lines, never adds or removes a line, changes only description lines whose fullPath is
\* exactly the key of some update, and leaves the title, the tree-rendering block, the
\* progress marker and the description lines of all other directories unchanged.
C23_ApplyUpdatesFrame ==
    [][AppliedUpdates =>
          /\ Len(doc') = Len(doc)
          /\ \E u \in DocUpdates :
                 \A i \in DOMAIN doc :
                     doc'[i] # doc[i] =>
                         /\ i = SkeletonLineOf(u[1])
                         /\ doc'[i] = get_full_path(u[1], root) \o SEPARATOR \o u[2]]_vars

\* An update of src has been applied, and the line the skeleton wrote for the
\* directory ' - b' of src holds the label of src
C23_Witness ==
    /\ pc = "docops"
    /\ call.op = "applyUpdates"
    /\ doc # NoDoc
    /\ Len(doc) >= SkeletonLineOf(<< "src", " - b" >>)
    /\ doc[SkeletonLineOf(<< "src" >>)] = "proj/src/ - SrcDr"
    /\ doc[SkeletonLineOf(<< "src", " - b" >>)] = "proj/src/ - SrcDr"

\* C14: in every document state reachable by createSkeleton, applyUpdates,
\* setProgressMarker and clearProgressMarker calls from no document, the
\* document has at most one progress-marker line.
C14_AtMostOneMarker ==
    (pc = "docops" /\ doc # NoDoc) => Cardinality(MarkerLines(doc)) <= 1

\* A document of an ordinarily named project holds exactly one marker after
\* the marker was set on a document that had none
C14_Witness ==
    /\ pc = "docops"
    /\ root = << "home", "proj" >>
    /\ call.op = "setProgressMarker"
    /\ doc # NoDoc
    /\ Cardinality(MarkerLines(doc)) = 1
    /\ doc[Len(doc)] # ProgressHeader("T1", "Initializing")
    /\ doc[Len(doc)] # ProgressHeader("T2", "Initializing")

(* ---- fetch_info.py, run again and again ---- *)

\* The instants at which the script is run
Instants == { 0, 3599, 3600, 7200 }

\* The requests that fail during one run: none, all
FailingSets == { {}, Requests }

InitFetch ==
    /\ root \in Roots
    /\ cwd = root
    /\ rawfs = FixedDirs
    /\ faults = NoFaults
    /\ pc = "fetch"
    /\ call = << >>
    /\ result = << >>
    /\ NoRun
    /\ cache_file = NoCacheFile
    /\ clock = 0
    /\ requests \in BOOLEAN
    /\ saved_at = [ q \in handlers |-> Never ]
    /\ invocation = NoInvocation

tree_vars ==
    << root, cwd, rawfs, faults, doc, pc, verb, outcome, batch_size, directories, depth,
       idx, targets, dir_summaries, updates, existing_descriptions, doc0, walk0,
       classified, propagated, lastcall, call, result >>

\* python fetch_info.py argv..., from the import of requests to the exit
Run(argv) ==
    /\ pc = "fetch"
    /\ IF main_exit(argv, requests) # 0
       THEN /\ invocation' = [made |-> TRUE, argv |-> argv, at |-> clock,
                              exit |-> main_exit(argv, requests), source |-> "none",
                              printed |-> EmptyDict, file |-> cache_file, before |-> Never,
                              warned |-> FALSE]
            /\ UNCHANGED << cache_file, saved_at >>
       ELSE \E failing \in FailingSets, writable \in BOOLEAN :
              LET query_type == QueryType(argv)
                  h == Handler(query_type, cache_file, clock, failing, writable)
              IN  /\ cache_file' = h.file
                  /\ saved_at' = IF h.source = "fetch" /\ writable
                                 THEN [saved_at EXCEPT ![query_type] = clock]
                                 ELSE saved_at
                  /\ invocation' = [made |-> TRUE, argv |-> argv, at |-> clock,
                                    exit |-> main_exit(argv, requests), source |-> h.source,
                                    printed |-> h.result, file |-> cache_file,
                                    before |-> saved_at[query_type], warned |-> h.warned]
    /\ UNCHANGED << clock, requests >>
    /\ UNCHANGED tree_vars

\* Time passes between two runs
Tick ==
    /\ pc = "fetch"
    /\ \E t \in Instants : t > clock /\ clock' = t
    /\ UNCHANGED << cache_file, requests, saved_at, invocation >>
    /\ UNCHANGED tree_vars

\* Between two runs the cache file is deleted, or overwritten with text that is
\* not JSON, or with a timestamp that is not an ISO date
Damage ==
    /\ pc = "fetch"
    /\ cache_file.kind = "json"
    /\ cache_file.parsable
    /\ cache_file' \in { NoCacheFile, GarbageFile, JsonFile(FALSE, 0, EmptyDict) }
    /\ saved_at' = [ q \in handlers |-> Never ]
    /\ UNCHANGED << clock, requests, invocation >>
    /\ UNCHANGED tree_vars

NextFetch ==
    \/ \E argv \in Argvs : Run(argv)
    \/ Tick
    \/ Damage

SpecFetch == InitFetch /\ [][NextFetch]_vars

\* The last run answered a valid query
Answered == invocation.made /\ invocation.exit = 0

\* C15: within the TTL, a query type that has been answered (and cached) once is
\* answered from the cache on every later request, even when queries of other
\* types were answered and cached in between.
C15_CachedPerQueryType ==
    (Answered /\ invocation.before # Never
        /\ invocation.at - invocation.before < CACHE_TTL_SECONDS)
        => invocation.source = "cache"

\* A query type answered a second time within the TTL, from the cache
C15_Witness ==
    /\ Answered
    /\ invocation.before # Never
    /\ invocation.at - invocation.before < CACHE_TTL_SECONDS
    /\ invocation.source = "cache"

\* The cache file the last run found held a payload less than the TTL old
FoundFresh ==
    /\ invocation.file.kind = "json"
    /\ invocation.file.parsable
    /\ invocation.at - invocation.file.timestamp < 3600

\* C16: load_cache returns a stored payload only when now - timestamp < 3600
\* seconds; when the cache file is missing, unparsable, or 3600 seconds old or
\* older, it returns no payload and the handler recomputes or refetches.
C16_CacheFreshness ==
    Answered =>
        /\ invocation.source = "cache" =>
               /\ FoundFresh
               /\ invocation.printed = invocation.file.data[QueryType(invocation.argv)]
        /\ ~ FoundFresh =>
               /\ invocation.source = "fetch"
               /\ \E failing \in FailingSets :
                      invocation.printed = Computed(QueryType(invocation.argv), failing)

\* A run that found its own query type in a cache exactly 3600 seconds old, and
\* recomputed the answer
C16_Witness ==
    /\ Answered
    /\ invocation.file.kind = "json"
    /\ invocation.file.parsable
    /\ QueryType(invocation.argv) \in DOMAIN invocation.file.data
    /\ invocation.at - invocation.file.timestamp = 3600
    /\ invocation.source = "fetch"

\* The last run was given no query type, or one that is not a handler's key
BadQuery ==
    Len(invocation.argv) = 0 \/ QueryType(invocation.argv) \notin handlers

\* The last run printed a result for both repositories
PrintedResult == DOMAIN invocation.printed = { "opencode", "oh-my-opencode" }

\* C17 as stated: for every valid query type the script exits with status 0 and
\* prints a JSON result whether or not the GitHub requests succeed; it exits
\* with status 1 only when no query type or an unknown one is given.
C17_ExitOneOnlyForBadQuery ==
    invocation.made =>
        /\ invocation.exit = 1 <=> BadQuery
        /\ invocation.exit = 0 <=> ~ BadQuery
        /\ invocation.exit = 0 => PrintedResult

\* C17, with the import of requests: where the requests library can be
\* imported, the script exits with status 0 and prints a JSON result for every
\* valid query type, whether or not the GitHub requests succeed, and with
\* status 1 for a missing or unknown query type; where it cannot be imported,
\* the script exits with status 1 whatever the query type.
C17_ExitStatus ==
    invocation.made =>
        /\ invocation.exit = 1 <=> (BadQuery \/ ~ requests)
        /\ invocation.exit = 0 <=> (~ BadQuery /\ requests)
        /\ invocation.exit = 0 => PrintedResult

\* A versions query all of whose requests failed: status 0, empty fields
C17_Witness ==
    /\ invocation.made
    /\ invocation.argv = << "versions" >>
    /\ invocation.source = "fetch"
    /\ invocation.exit = 0
    /\ invocation.printed["opencode"]["version"] = ""
    /\ invocation.printed["opencode"]["license"] = ""

(* ---- find_all_directories ---- *)

\* The roots a walk starts from: the second lies under a build directory
WalkRoots == { << "home", "proj" >>, << "home", "build", "proj" >> }

WalkNames == { "pkg", ".git", "dist" }

\* The most directories a walked project has under its root
MaxRawDirs == 4

\* A directory is made under the root
MkRawDir ==
    /\ pc = "walk"
    /\ Cardinality(rawfs) <= MaxRawDirs
    /\ \E parent \in rawfs, name \in WalkNames :
           /\ Append(parent, name) \notin rawfs
           /\ rawfs' = rawfs \cup { Append(parent, name) }
    /\ result' = << >>
    /\ UNCHANGED << fetch_vars, root, cwd, faults, pc, call >>
    /\ UNCHANGED NoRunVars

\* find_all_directories(root) is called
WalkCall ==
    /\ pc = "walk"
    /\ result = << >>
    /\ result' = << find_all_directories(root, rawfs) >>
    /\ UNCHANGED << fetch_vars, root, cwd, rawfs, faults, pc, call >>
    /\ UNCHANGED NoRunVars

InitWalk ==
    /\ root \in WalkRoots
    /\ cwd = root
    /\ rawfs = { << >> }
    /\ faults = NoFaults
    /\ NoFetch
    /\ pc = "walk"
    /\ call = << >>
    /\ result = << >>
    /\ NoRun

NextWalk == MkRawDir \/ WalkCall

SpecWalk == InitWalk /\ [][NextWalk]_vars

\* C10: for every root, no directory whose path has a segment in the ignore set is in the
\* output of find_all_directories, and so no directory below an ignored directory either.
C10_IgnoreSetContainment ==
    (pc = "walk" /\ Len(result) = 1) =>
        \A i \in DOMAIN result[1] :
            /\ \A k \in DOMAIN Abs(root, result[1][i]) :
                   Abs(root, result[1][i])[k] \notin IGNORED_DIRS
            /\ \A q \in rawfs :
                   ~(PathName(q) \in IGNORED_DIRS /\ IsPrefix(q, result[1][i]))

\* A walk that kept a directory and left out an ignored one and a directory below it
C10_Witness ==
    /\ pc = "walk"
    /\ Len(result) = 1
    /\ { << ".git" >>, << ".git", "pkg" >>, << "pkg" >> } \subseteq rawfs
    /\ result[1] = << << >>, << "pkg" >> >>


(* ---- propagate_summary ---- *)

\* The directories propagate_summary is called for, relative to the root: the root, four
\* names of the override table, a name outside it, and a directory named like the root
PropDirs ==
    { << >>, << "src" >>, << "core" >>, << "handlers" >>, << "docs" >>, << "mymod" >>,
      << "sub", "proj" >> }

\* A label longer than the longest summary propagate_summary returns for ordinary parents
LongLabel == "0123456789012345678901234567890123456789012345678901234"

ChildLabels == { "AuthMd", "Resources", LongLabel, "Auth Module", "Data Layer" }

\* The most child summaries passed in one call
MaxChildren == 2

PropFiles ==
    { {}, { [name |-> "login.py", content |-> "def login(): pass", readable |-> TRUE] } }

InitPropagate ==
    /\ root \in Roots
    /\ cwd \in Cwds(root)
    /\ rawfs = FixedDirs
    /\ faults = NoFaults
    /\ NoFetch
    /\ pc = "propagate"
    /\ call \in [ dir_path : PropDirs, child_summaries : SeqsUpTo(ChildLabels, MaxChildren),
                  files : PropFiles ]
    /\ result = << >>
    /\ NoRun

\* propagate_summary(dir_path, child_summaries, root) is called
PropagateCall ==
    /\ pc = "propagate"
    /\ result = << >>
    /\ \E summary \in propagate_summary(Abs(root, call.dir_path), call.child_summaries, root,
                                        cwd, call.files) :
           result' = << summary >>
    /\ UNCHANGED << fetch_vars, root, cwd, rawfs, faults, pc, call >>
    /\ UNCHANGED NoRunVars

NextPropagate == PropagateCall

SpecPropagate == InitPropagate /\ [][NextPropagate]_vars

\* The entry of the override table for the name of a directory, 0 if there is none
OverrideOf(dir_path) == FirstMatch({ ix \in DOMAIN OverrideTable :
        LET e == OverrideTable[ix] IN PathName(dir_path) \in e.keys })

Propagated == pc = "propagate" /\ Len(result) = 1

\* C8 as stated: for a directory whose name is a key of the override table
\* propagate_summary returns the table's label for any sequence of child labels.
C8_OverrideAnyChildren ==
    (Propagated /\ OverrideOf(call.dir_path) # 0) =>
        result[1] = OverrideTable[OverrideOf(call.dir_path)].label

\* C8: for a directory whose name is a key of the override table propagate_summary
\* returns the table's label for any sequence of child labels that is not empty.
C8_OverridePrecedence ==
    (Propagated /\ OverrideOf(call.dir_path) # 0 /\ Len(call.child_summaries) > 0) =>
        result[1] = OverrideTable[OverrideOf(call.dir_path)].label

\* A directory named src got the table's label although its two children agree on another
C8_Witness ==
    /\ Propagated
    /\ call.dir_path = << "src" >>
    /\ call.child_summaries = << "AuthMd", "AuthMd" >>
    /\ result[1] = "CoreSrcLogi"

\* C19: propagate_summary is deterministic: for a fixed directory, root and
\* sequence of child labels it always returns the same label, whatever the order
\* in which the distinct child labels are visited.
C19_Deterministic ==
    Propagated =>
        propagate_summary(Abs(root, call.dir_path), call.child_summaries, root, cwd,
                          call.files) = { result[1] }

\* Two child labels of two words each were merged, in one of the two orders
C19_Witness ==
    /\ Propagated
    /\ call.dir_path = << "mymod" >>
    /\ call.child_summaries = << "Auth Module", "Data Layer" >>
    /\ result[1] = "DataLayer&AuthModule"

\* C20: a label returned by propagate_summary for a directory with at least one
\* child label is at most 50 characters long, for every directory, the project
\* root included.
C20_LabelAtMost50 ==
    (Propagated /\ Len(call.child_summaries) > 0) => Len(result[1]) <= 50

\* The label of an ordinary directory whose children agree on a longer label
\* was cut to 50 characters
C20_Witness ==
    /\ Propagated
    /\ call.dir_path = << "mymod" >>
    /\ call.child_summaries = << LongLabel >>
    /\ Len(result[1]) = 50

\* The one label the child summaries of the call all are
Homogeneous(L) ==
    /\ Len(call.child_summaries) > 0
    /\ \A i \in DOMAIN call.child_summaries : call.child_summaries[i] = L

StoreLines ==
    { "## Module Descriptions", "proj/ - [TBD]", "proj/src/ - [TBD]", "proj/src/ - AuthMd" }

\* The updates the update lists are made of
StoreUpdates ==
    { << << >>, "b/ - x" >>, << << " - b" >>, "Util" >>, << << "src" >>, "AuthMd" >>,
      << << "src" >>, "a - b" >> }

\* The most lines of a document, and the most updates of an update list
MaxDocLines == 2
MaxStoreUpdates == 2

InitStore ==
    /\ root \in Roots
    /\ cwd = root
    /\ rawfs = FixedDirs
    /\ faults = NoFaults
    /\ NoFetch
    /\ pc = "store"
    /\ call \in [ lines : SeqsUpTo(StoreLines, MaxDocLines) \ { << >> },
                  updates : SeqsUpTo(StoreUpdates, MaxStoreUpdates) ]
    /\ result = << >>
    /\ NoRun

\* batch_update_descriptions(root, updates) is called, a first and then a second time
ApplyUpdates ==
    /\ pc = "store"
    /\ Len(result) < 2
    /\ result' = Append(result,
                     batch_update_descriptions(
                         IF Len(result) = 0 THEN call.lines ELSE result[Len(result)],
                         call.updates, root))
    /\ UNCHANGED << fetch_vars, root, cwd, rawfs, faults, pc, call >>
    /\ UNCHANGED NoRunVars

NextStore == ApplyUpdates

SpecStore == InitStore /\ [][NextStore]_vars

\* C3: for every existing document and every update list, calling
\* batch_update_descriptions twice with the same updates leaves the document that
\* calling it once leaves.
C3_ApplyUpdatesIdempotent ==
    (pc = "store" /\ Len(result) = 2) => result[2] = result[1]

(***************************************************************************)
(* The write buffer and the progress marker during generate (Spec)         *)
(***************************************************************************)

\* The document's progress marker names this full path
MarkerNames(d, full_path) ==
    \E i \in MarkerLines(d) : \E ts \in Timestamps : d[i] = ProgressHeader(ts, full_path)

\* A step of the leaf phase or of the depth phase of generate that ends a flush: the
\* update buffer held entries and is cleared
FlushCompletes ==
    /\ pc \in { "leaf", "leaf_mark", "depth", "depth_mark" }
    /\ pc' \in { "leaf", "depth" }
    /\ updates # << >>
    /\ updates' = << >>

\* C21: in the leaf phase and the depth-propagation phase of generate, after every flush
\* of the update buffer to the document (the flush of a final partial batch included),
\* the progress marker in the document names the full path of the last directory of the
\* batch just flushed.
C21_MarkerTracksLastFlush ==
    [][FlushCompletes =>
          MarkerNames(doc', get_full_path(updates[Len(updates)][1], root))]_vars

\* The leaf phase has just ended with the flush of a partial batch, and the marker does
\* not name the last leaf written
C21_Witness ==
    /\ pc = "depth"
    /\ verb = "fresh"
    /\ propagated = << >>
    /\ updates = << >>
    /\ Len(classified) = 2
    /\ LabelOf(doc, classified[2]) \notin { "", PLACEHOLDER }
    /\ ~MarkerNames(doc, get_full_path(classified[2], root))
    /\ MarkerNames(doc, "Initializing")

(***************************************************************************)
(* The validation pass (Spec)                                              *)
(***************************************************************************)

\* The pending update of the validation pass for directory c, 0 if there is none
PendingFor(c) == FirstMatch({ i \in DOMAIN updates : updates[i][1] = c })

\* The labels of the children of d that the validation pass has at hand: the real
\* labels of the document and, when with_pending, the labels it has computed itself
AvailableChildLabels(d, with_pending) ==
    LET child_dirs == child_dirs_of(d, directories)
        label(c) == IF with_pending /\ PendingFor(c) # 0
                    THEN updates[PendingFor(c)][2]
                    ELSE LabelOf(doc, c)
        known == SelectSeq(child_dirs, LAMBDA c : label(c) \notin { "", PLACEHOLDER })
    IN  [ i \in DOMAIN known |-> label(known[i]) ]

\* The labels that propagation from the available children's labels can give d
PropagatedFromAvailable(d) ==
    UNION { propagate_summary(Abs(root, d), AvailableChildLabels(d, wp), root, cwd, FilesOf(d)) :
              wp \in BOOLEAN }

\* C22: in the validation pass a directory found missing or at the placeholder is
\* re-labelled by the leaf classifier if it is a leaf, and by propagation from the
\* labels of its available children if it is not.
C22_RelabelByKind ==
    pc = "fix" =>
        \A i \in DOMAIN updates :
            LET d == updates[i][1]
                s == updates[i][2]
            IN  IF is_leaf_directory(root, d, directories)
                THEN s = analyze_directory_code(Abs(root, d), cwd, FilesOf(d))
                ELSE s \in PropagatedFromAvailable(d)

\* The validation pass has re-labelled a leaf and a directory that is not a leaf
C22_Witness ==
    /\ pc = "fix"
    /\ \E i \in DOMAIN updates : is_leaf_directory(root, updates[i][1], directories)
    /\ \E i \in DOMAIN updates :
           /\ ~is_leaf_directory(root, updates[i][1], directories)
           /\ AvailableChildLabels(updates[i][1], TRUE) # << >>

(* ---- the leaf classifier on its own ---- *)

\* The leaf directories classified: none but vendor is at the first level, and none but
\* src/auth has a segment of the path-segment vocabulary
ClassDirs ==
    { << "vendor" >>, << "src", "auth" >>, << "lib", "misc" >>, << "lib", "myconfig" >>,
      << "lib", "shared_x" >>, << "lib", "logs" >>, << "lib", "model_v2" >> }

\* The files a classified directory may hold
ClassFiles ==
    { {},
      { [name |-> "notes.txt", content |-> "todo", readable |-> TRUE] },
      { [name |-> "job.py", content |-> "x = 1", readable |-> TRUE] },
      { [name |-> "job.py", content |-> "x = 1", readable |-> FALSE],
        [name |-> "notes.txt", content |-> "todo", readable |-> TRUE] } }

NotClassified == [made |-> FALSE, label |-> "", read |-> << >>]

InitClassify ==
    /\ root \in Roots
    /\ cwd \in Cwds(root)
    /\ rawfs = FixedDirs
    /\ faults = NoFaults
    /\ NoFetch
    /\ pc = "classify"
    /\ call \in [ dir_path : ClassDirs, files : ClassFiles ]
    /\ result = NotClassified
    /\ NoRun

\* analyze_directory_code(dir_path) is called
ClassifyCall ==
    /\ pc = "classify"
    /\ ~result.made
    /\ result' = [made |-> TRUE,
                  label |-> analyze_directory_code(Abs(root, call.dir_path), cwd, call.files),
                  read |-> files_read(Abs(root, call.dir_path), cwd, call.files)]
    /\ UNCHANGED << fetch_vars, root, cwd, rawfs, faults, pc, call >>
    /\ UNCHANGED NoRunVars

NextClassify == ClassifyCall

SpecClassify == InitClassify /\ [][NextClassify]_vars

\* The path-position rule names the directory: it is at the first level of the project
\* and its name is in the rule's vocabulary
MatchesPathPosition(p) ==
    /\ Len(p) = 1
    /\ \E ix \in DOMAIN TopLevelRules :
           LET rule == TopLevelRules[ix] IN
           IF rule.kind = "in" THEN Lower(PathName(p)) \in rule.keys
           ELSE \E k \in rule.keys : Contains(Lower(PathName(p)), k)

\* The path-segment rule names the directory: a segment of its path below the project
\* root is in the rule's vocabulary
MatchesPathSegment(p) ==
    \/ Range(p) \cap { "api", "apis", "rpc", "service" } # {}
    \/ \E ix \in DOMAIN SegmentRules : SegmentRules[ix].keys \cap Range(p) # {}

\* The directory directly contains no file with a source-code extension
NoCodeFile(files) == \A f \in files : Suffix(f.name) \notin CODE_EXTENSIONS

\* C24: a leaf directory that matches neither the path-position rule nor the
\* path-segment rule and that directly contains no file with a source-code extension is
\* labelled with the generic non-code-resource label, without any file content being
\* read.
C24_NonCodeLeafGeneric ==
    ( /\ pc = "classify"
      /\ result.made
      /\ ~MatchesPathPosition(call.dir_path)
      /\ ~MatchesPathSegment(call.dir_path)
      /\ NoCodeFile(call.files) )
        => (result.label = "Resources" /\ result.read = << >>)

\* A directory that no rule names and that holds a text file only got the generic
\* label, and nothing was read
C24_Witness ==
    /\ pc = "classify"
    /\ result.made
    /\ call.dir_path = << "lib", "misc" >>
    /\ call.files # {}
    /\ NoCodeFile(call.files)
    /\ result.label = "Resources"
    /\ result.read = << >>

(***************************************************************************)
(* get_time.py: the UTC offset                                             *)
(***************************************************************************)

\* The decimal digit d as text
Digit(d) == SubSeq("0123456789", d + 1, d + 1)

\* format(n, 'd') of a natural number
RECURSIVE Decimal(_)
Decimal(n) == IF n < 10 THEN Digit(n) ELSE Decimal(n \div 10) \o Digit(n % 10)

\* format(n, '02d') of a natural number: at least two digits
TwoDigits(n) == IF n < 10 THEN "0" \o Digit(n) ELSE Decimal(n)

\* abs(n)
abs(n) == IF n < 0 THEN 0 - n ELSE n

\* offset_seconds of get_utc_offset: tm holds time.timezone, time.daylight, time.altzone
offset_seconds(tm) == IF tm.daylight = 0 THEN 0 - tm.timezone ELSE 0 - tm.altzone

\* get_utc_offset(): // is the floor division, as \div is
get_utc_offset(tm) ==
    LET hours == offset_seconds(tm) \div 3600
        minutes == (abs(offset_seconds(tm)) % 3600) \div 60
        sign == IF hours >= 0 THEN "+" ELSE "-"
    IN  sign \o TwoDigits(abs(hours)) \o ":" \o TwoDigits(minutes)

\* The offsets of the time module are whole minutes of at most this magnitude
MaxOffsetMinutes == 1439

\* The step between two offsets, in minutes
OffsetStepMinutes == 15

\* What the time module can hold: a standard offset, and a daylight-saving offset that is
\* the same or an hour ahead
TimeModules ==
    { [timezone |-> 0 - 60 * m, daylight |-> d, altzone |-> 0 - 60 * (m + a)] :
        m \in { n \in (0 - MaxOffsetMinutes)..MaxOffsetMinutes : n % OffsetStepMinutes = 0 },
        d \in { 0, 1 }, a \in { 0, 60 } }

InitOffset ==
    /\ root \in Roots
    /\ cwd = root
    /\ rawfs = FixedDirs
    /\ faults = NoFaults
    /\ NoFetch
    /\ pc = "offset"
    /\ call \in TimeModules
    /\ result = ""
    /\ NoRun

\* get_utc_offset() is called
OffsetCall ==
    /\ pc = "offset"
    /\ result = ""
    /\ result' = get_utc_offset(call)
    /\ UNCHANGED << fetch_vars, root, cwd, rawfs, faults, pc, call >>
    /\ UNCHANGED NoRunVars

NextOffset == OffsetCall

SpecOffset == InitOffset /\ [][NextOffset]_vars

\* The number a text of two decimal digits denotes
TwoDigitValue(s) ==
    LET value(ch) == CHOOSE d \in 0..9 : Digit(d) = ch IN
    10 * value(SubSeq(s, 1, 1)) + value(SubSeq(s, 2, 2))

\* The parts of an offset text '+HH:MM' or '-HH:MM'
SignOf(s) == SubSeq(s, 1, 1)
HoursOf(s) == TwoDigitValue(SubSeq(s, 2, 3))
MinutesOf(s) == TwoDigitValue(SubSeq(s, 5, 6))

\* The offset in seconds that an offset text denotes
Denoted(s) == (IF SignOf(s) = "-" THEN 0 - 1 ELSE 1) * (HoursOf(s) * 3600 + MinutesOf(s) * 60)

\* get_utc_offset has returned the text of an offset of whole minutes below 24 hours
OffsetFormatted ==
    /\ pc = "offset"
    /\ result # ""
    /\ offset_seconds(call) % 60 = 0
    /\ abs(offset_seconds(call)) < 24 * 3600

\* C25: for every UTC offset in seconds that is a whole number of minutes with magnitude
\* below 24 hours (positive, zero or negative, offsets that are not whole hours
\* included), the text of get_utc_offset denotes exactly that offset: the sign is the
\* offset's sign, HH is |offset| div 3600 and MM is (|offset| mod 3600) div 60.
C25_OffsetText ==
    OffsetFormatted =>
        /\ Len(result) = 6
        /\ Denoted(result) = offset_seconds(call)
        /\ SignOf(result) = (IF offset_seconds(call) < 0 THEN "-" ELSE "+")
        /\ HoursOf(result) = abs(offset_seconds(call)) \div 3600
        /\ MinutesOf(result) = (abs(offset_seconds(call)) % 3600) \div 60

\* The offset of five and a half hours east is written '+05:30'
C25_Witness ==
    /\ OffsetFormatted
    /\ offset_seconds(call) = 19800
    /\ result = "+05:30"

(***************************************************************************)
(* Interrupted generation and resume (Spec)                                *)
(***************************************************************************)

\* A strategy-2 run has returned, and the directory tree is the one the last generate run
\* walked: every document it can have started from was left by that run, interrupted at
\* some point after the skeleton, or by an earlier resume of it
ResumeCompleted ==
    /\ pc = "done"
    /\ verb = "strategy2"
    /\ walk0 = WalkNow

ResumeTrees ==
    { FixedDirs \cup { << "src" >>, << "src", "auth" >> },
      FixedDirs \cup Universe,
      FixedDirs \cup { << "src" >>, << "src", " - b" >> } }

InitResume ==
    /\ root \in Roots
    /\ cwd \in Cwds(root)
    /\ rawfs \in ResumeTrees
    /\ faults = NoFaults
    /\ NoFetch
    /\ pc = "idle"
    /\ call = << >>
    /\ result = NoDoc
    /\ NoRun

\* The process exits after a full generation has returned; result keeps the document
\* the uninterrupted run has left
ExitFull ==
    /\ pc = "done"
    /\ verb \in { "fresh", "strategy1" }
    /\ result' = doc
    /\ pc' = "idle"
    /\ verb' = "none"
    /\ outcome' = "none"
    /\ doc0' = NoDoc
    /\ ResetLocals
    /\ UNCHANGED << fetch_vars, root, cwd, rawfs, faults, doc, walk0, call >>

\* The process exits after a resume has returned
ExitResume ==
    /\ verb = "strategy2"
    /\ Exit

NextResume ==
    \/ GenerateFresh
    \/ GenerateOverwrite
    \/ LeafStep
    \/ LeafMark
    \/ LeafEnd
    \/ DepthStep
    \/ DepthMark
    \/ DepthEnd
    \/ Finalize
    \/ ValidateStart
    \/ FixStep
    \/ FixEnd
    \/ ContinueUnanalyzed
    \/ IncrStep
    \/ IncrMark
    \/ IncrNextDepth
    \/ IncrEnd
    \/ IncrRemove
    \/ ExitFull
    \/ ExitResume
    \/ Interrupt

SpecResume == InitResume /\ [][NextResume]_vars

\* A strategy-2 run has returned on the tree of an uninterrupted run whose document is
\* known
ResumedAfterFull ==
    /\ pc = "done"
    /\ verb = "strategy2"
    /\ result # NoDoc

\* The labels that the lines of document d give the full path of directory p
LineLabels(d, p) ==
    { SubSeq(d[i], Len(get_full_path(p, root) \o SEPARATOR) + 1, Len(d[i])) : i \in LinesOf(d, p) }

\* C27: on an unchanged directory tree, a generate run interrupted at any point after
\* skeleton creation and then completed by a strategy-2 run yields the same
\* fullPath-to-label map as a single uninterrupted generate run.
C27_ResumeEqualsFullRun ==
    ResumedAfterFull =>
        \A i \in DOMAIN WalkNow : LineLabels(doc, WalkNow[i]) = LineLabels(result, WalkNow[i])

\* On the ordinary tree a resume that had three directories to label has ended with the
\* label map of the uninterrupted run
C27_Witness ==
    /\ ResumedAfterFull
    /\ << "src", "auth" >> \in rawfs
    /\ << "a - b" >> \notin rawfs
    /\ Cardinality(AtPlaceholder(doc0)) = 3
    /\ AtPlaceholder(doc) = {}
    /\ \A i \in DOMAIN WalkNow : LineLabels(doc, WalkNow[i]) = LineLabels(result, WalkNow[i])

\* The leaf phase or the depth phase of generate is running
InGeneratePhases == pc \in { "leaf", "leaf_mark", "depth", "depth_mark" }

\* The leaf phase has ended, or a depth level has: the next level is about to begin
AtLevelBoundary == pc = "depth" /\ idx = 1

\* The progress marker has just been cleared
MarkerCleared == pc = "validate"

\* Document d holds the line that gives directory p this label
WrittenAs(d, p, label) ==
    \E i \in DOMAIN d : d[i] = get_full_path(p, root) \o SEPARATOR \o label

\* C28: during generate (batch_size >= 1) the pending-update buffer never holds more than
\* batch_size entries, it is empty at the end of the leaf phase and at the end of every
\* depth level, and every label computed in the run has been written to the document by
\* the time the progress marker is cleared.
C28_BoundedBufferNothingLost ==
    /\ InGeneratePhases => Len(updates) <= batch_size
    /\ AtLevelBoundary => updates = << >>
    /\ MarkerCleared =>
           \A p \in DOMAIN dir_summaries : WrittenAs(doc, p, dir_summaries[p])

\* A run with batch size 2 has labelled five directories, three flushes of which one was
\* a partial batch, and every label is in the document when the marker is cleared
C28_Witness ==
    /\ MarkerCleared
    /\ batch_size = 2
    /\ Cardinality(DOMAIN dir_summaries) = 5
    /\ \A p \in DOMAIN dir_summaries : WrittenAs(doc, p, dir_summaries[p])
    /\ MarkerLines(doc) = {}

(* ---- the walker's output as a tree (SpecWalk) ---- *)

\* find_all_directories has returned
Walked == pc = "walk" /\ Len(result) = 1

\* C29: for every existing root directory (whatever its own absolute path), the output of
\* find_all_directories contains the root itself at depth 0, and for every other
\* directory in the output its parent directory is also in the output.
C29_WalkIsRootedTree ==
    Walked =>
        /\ \E i \in DOMAIN result[1] : result[1][i] = << >> /\ DepthOf(result[1][i]) = 0
        /\ \A i \in DOMAIN result[1] :
               result[1][i] # << >> =>
                   \E j \in DOMAIN result[1] : result[1][j] = Parent(result[1][i])

\* A walk from an ordinary root that returned the root, a directory and a directory in it
C29_Witness ==
    /\ Walked
    /\ root = << "home", "proj" >>
    /\ Range(result[1]) = { << >>, << "pkg" >>, << "pkg", "pkg" >> }

(* ---- failed fetches and the cache (SpecFetch) ---- *)

\* The query types that are answered from GitHub
Fetched == { "versions", "changelog" }

\* What a handler computes when every GitHub request fails: empty and default fields
FailedResult(query_type) == Computed(query_type, Requests)

\* The last run answered a query type that is fetched from GitHub
AnsweredFetched == Answered /\ QueryType(invocation.argv) \in Fetched

\* The state a run of the fetcher leaves: what it has fetched is the cache's content
\* unless save_cache has warned, and a fresh cache that holds the result of a failed
\* fetch has answered
FailedFetchCached ==
    AnsweredFetched =>
        LET query_type == QueryType(invocation.argv) IN
        /\ (invocation.source = "fetch" /\ ~invocation.warned) =>
               cache_file = JsonFile(TRUE, invocation.at, ( query_type :> invocation.printed ))
        /\ ( /\ FoundFresh
             /\ query_type \in DOMAIN invocation.file.data
             /\ invocation.file.data[query_type] = FailedResult(query_type) ) =>
               /\ invocation.source = "cache"
               /\ invocation.printed = FailedResult(query_type)
               /\ cache_file = invocation.file

\* C30: get_latest_versions and get_changelog save their result to the cache whether or
\* not the GitHub requests succeeded, so a call made within the TTL after a failed fetch
\* returns the same result (with empty/default fields) without issuing a new request.
C30_FailedFetchCached == [][invocation' # invocation => FailedFetchCached']_vars

\* A versions query was answered from the cache, 3599 seconds after a run whose requests
\* had all failed, with the empty and default fields that run had saved
C30_Witness ==
    /\ AnsweredFetched
    /\ QueryType(invocation.argv) = "versions"
    /\ invocation.source = "cache"
    /\ invocation.at - invocation.file.timestamp = 3599
    /\ invocation.printed = FailedResult("versions")
    /\ invocation.printed["opencode"]["version"] = ""
    /\ invocation.printed["opencode"]["stars"] = "0"


====
